---- MODULE Spec2Model ----
(***************************************************************************)
(* FurinaOCR scan orchestration: the repository scan Controller (a         *)
(* coroutine walking the item grid), the driver loop that resumes it and   *)
(* builds SendItems, and the recognition Worker that consumes them.        *)
(***************************************************************************)
EXTENDS Integers, Sequences, FiniteSets, TLC

(* ------------------------------ bounds -------------------------------- *)
MaxItems == 7
MaxRow == 2
MaxCol == 2
\* longest run of equal samples before the flag pixel changes, in a scroll script
MaxLag == 1
\* polls of the pool region that fit into the configured switch wait
MaxWaitPolls == 2
\* items the driver sends to the Worker in the Worker specification
MaxMsgs == 4
\* distinct panel contents offered to the Worker
MaxContent == 2
\* inputs of ScanState::new in its own specification
MaxNewItems == 80
MaxNewCol == 9
\* longest text handed to parse_level
MaxLevelLen == 3
MaxErrors == 2
MaxAttempts == 3
MaxRetries == 3
MaxCalls == 3
MaxThreshold == 2
MaxBase == 10
MaxOps == 6

(* ------------------------- program constants -------------------------- *)
max_scroll == 25
ColorThreshold == 10
ScrolledRowsFast == 5
AlignTries == 10
DefaultMinStar == 5
DefaultMaxRow == -1
DefaultMinLevel == 0
I32Max == 2147483647

(* --------------------------- value domains ---------------------------- *)
\* RGB samples of the flag pixel: the second is at squared distance 10 of
\* the first, the third at squared distance 11
Colors == { <<0, 0, 0>>, <<1, 3, 0>>, <<1, 3, 1>> }
BlackColor == <<0, 0, 0>>
\* red-channel sums of the pool region
Pools == { 0, 1 }
Stars == { 4, 5 }
\* get_star failed to sample the colour
StarErr == 0
MaxRowChoices == { DefaultMaxRow, 1 }
\* artifact levels, and the panel contents the Worker is offered
Levels == { 0, 1 }
\* a panel whose level text is not recognized, or does not parse
LevelErr == -1
Contents == 1..MaxContent
\* a failed capture, as a colour sample and as a pool sample
ColorErr == << -1, -1, -1 >>
PoolErr == -1

Min(a, b) == IF a <= b THEN a ELSE b

(* ------------------------- ScanState (pure) --------------------------- *)
\* variant: the row count rounded down
ScanStateNewFloor(item_count, col) ==
    [ scanned_row |-> 0,
      scanned_count |-> 0,
      start_row |-> 0,
      item_count |-> item_count,
      total_row |-> item_count \div col,
      last_row_col |-> IF item_count % col = 0 THEN col ELSE item_count % col ]

\* variant: the row being counted is taken as already counted
is_max_row_reached_early(s) == s.scanned_row + 1 >= s.total_row

ScanStateNew(item_count, col) ==
    [ scanned_row |-> 0,
      scanned_count |-> 0,
      start_row |-> 0,
      item_count |-> item_count,
      total_row |-> (item_count + col - 1) \div col,
      last_row_col |-> IF item_count % col = 0 THEN col ELSE item_count % col ]

is_scan_complete(s) == s.scanned_count >= s.item_count

is_max_row_reached(s) == s.scanned_row >= s.total_row

\* <<scroll_row, start_row>>
calculate_remaining_scan_params(s, controller_row) ==
    LET remain == s.item_count - s.scanned_count
        remain_row == (remain + controller_row - 1) \div controller_row
        scroll_row == Min(remain_row, controller_row)
    IN  << scroll_row, controller_row - scroll_row >>

color_distance(c1, c2) ==
    LET x == c1[1] - c2[1]
        y == c1[2] - c2[2]
        z == c1[3] - c2[3]
    IN  x * x + y * y + z * z

(* --------------------- scroll_one_row (poll loop) --------------------- *)
\* what one loop iteration reads: the cancel signal, then the flag colour
ColorSamples == Colors \cup { ColorErr }
ScrollInput(rmb, sample) == [ rmb |-> rmb, sample |-> sample ]
TailInputs == { ScrollInput(FALSE, x) : x \in ColorSamples }
                  \cup { ScrollInput(TRUE, BlackColor) }

\* a script of inputs: a times colour x, then b times colour y, then z for ever
PiecewiseScript(a, b, x, y, z) == [ a |-> a, b |-> b, x |-> x, y |-> y, z |-> z ]
\* input number i of script sp
ScriptAt(sp, i) ==
    IF i <= sp.a THEN ScrollInput(FALSE, sp.x)
    ELSE IF i <= sp.a + sp.b THEN ScrollInput(FALSE, sp.y)
    ELSE sp.z

IsFar(initial_color, color) == color_distance(initial_color, color) > ColorThreshold

\* variant: a near sample ends the loop whether or not a far one came before
ScrollIterAnyNear(initial_color, st, inp) ==
    IF inp.rmb
    THEN [ done |-> TRUE, result |-> "Interrupt", state |-> st.state, count |-> st.count ]
    ELSE IF inp.sample = ColorErr
    THEN [ done |-> TRUE, result |-> "Failed", state |-> st.state, count |-> st.count + 1 ]
    ELSE IF st.state = 0 /\ IsFar(initial_color, inp.sample)
    THEN [ done |-> FALSE, result |-> "none", state |-> 1, count |-> st.count + 1 ]
    ELSE IF ~IsFar(initial_color, inp.sample)
    THEN [ done |-> TRUE, result |-> "Success", state |-> 1, count |-> st.count + 1 ]
    ELSE [ done |-> FALSE, result |-> "none", state |-> st.state, count |-> st.count + 1 ]

\* the body of the while loop for one input; st = [state, count]
ScrollIter(initial_color, st, inp) ==
    IF inp.rmb
    THEN [ done |-> TRUE, result |-> "Interrupt", state |-> st.state, count |-> st.count ]
    ELSE IF inp.sample = ColorErr
    THEN [ done |-> TRUE, result |-> "Failed", state |-> st.state, count |-> st.count + 1 ]
    ELSE IF st.state = 0 /\ IsFar(initial_color, inp.sample)
    THEN [ done |-> FALSE, result |-> "none", state |-> 1, count |-> st.count + 1 ]
    ELSE IF st.state = 1 /\ ~IsFar(initial_color, inp.sample)
    THEN [ done |-> TRUE, result |-> "Success", state |-> 1, count |-> st.count + 1 ]
    ELSE [ done |-> FALSE, result |-> "none", state |-> st.state, count |-> st.count + 1 ]

RECURSIVE ScrollLoop(_, _, _)
ScrollLoop(initial_color, script, st) ==
    IF st.count >= max_scroll
    THEN [ result |-> "TimeLimitExceeded", count |-> st.count ]
    ELSE LET nx == ScrollIter(initial_color, st, ScriptAt(script, st.count + 1))
         IN  IF nx.done
             THEN [ result |-> nx.result, count |-> nx.count ]
             ELSE ScrollLoop(initial_color, script, nx)

\* [result, count]: count is the number of scroll inputs issued
scroll_one_row(initial_color, script) ==
    ScrollLoop(initial_color, script, [ state |-> 0, count |-> 0 ])

\* a far sample, and the last of the n samples read is near again
FarThenNear(initial_color, script, n) ==
    \E i \in 1..(n - 1) :
        /\ ScriptAt(script, i).sample # ColorErr
        /\ color_distance(initial_color, ScriptAt(script, i).sample) > ColorThreshold
        /\ ScriptAt(script, n).sample # ColorErr
        /\ color_distance(initial_color, ScriptAt(script, n).sample) <= ColorThreshold

ScrollScripts ==
    { PiecewiseScript(a, b, x, y, z) :
        a \in 0..MaxLag, b \in 0..MaxLag, x \in Colors, y \in Colors, z \in TailInputs }

\* what a scroll_one_row call did: its result, the scroll inputs it issued,
\* and whether the samples it read were far and then near
ScrollSeen(initial_color, script) ==
    LET res == scroll_one_row(initial_color, script)
    IN  [ result |-> res.result, count |-> res.count,
          pattern |-> FarThenNear(initial_color, script, res.count) ]

\* every outcome of scroll_one_row, by the stored initial colour
ScrollOutcomes ==
    [ ic \in Colors |-> { ScrollSeen(ic, script) : script \in ScrollScripts } ]

\* avg_scroll_one_row is kept as the exact quotient scroll_sum / scrolled_rows
update_avg_row(c, count) ==
    [ c EXCEPT !.scroll_sum = c.scroll_sum + count,
               !.scrolled_rows = c.scrolled_rows + 1 ]

\* max(0, round(avg * count - 2)), rounding half away from zero
estimate_scroll_length(c, count) ==
    LET num == c.scroll_sum * count - 2 * c.scrolled_rows
    IN  IF num <= 0 THEN 0
        ELSE (2 * num + c.scrolled_rows) \div (2 * c.scrolled_rows)

\* align_row: "ok", or "panic" when a scroll input fails under unwrap
RECURSIVE AlignLoop(_, _, _, _)
AlignLoop(initial_color, sample, scroll_ok, tries) ==
    IF tries >= AlignTries THEN "ok"
    ELSE IF sample = ColorErr THEN "ok"
    ELSE IF IsFar(initial_color, sample)
         THEN IF scroll_ok
              THEN AlignLoop(initial_color, sample, scroll_ok, tries + 1)
              ELSE "panic"
         ELSE "ok"
align_row(initial_color, sample, scroll_ok) ==
    AlignLoop(initial_color, sample, scroll_ok, 0)

(* ------------------------- wait_until_switched ------------------------ *)
PoolSamples == Pools \cup { PoolErr }
\* the samples of the polls that fit into the wait
WaitScripts(fit) == [ 1..fit -> PoolSamples ]

\* fit: how many polls start before the clock passes the maximum wait
RECURSIVE WaitLoop(_, _, _, _, _)
WaitLoop(pool, script, fit, i, diff_flag) ==
    IF i > fit
    THEN [ result |-> "Timeout", pool |-> pool, polls |-> i - 1 ]
    ELSE IF script[i] = PoolErr
    THEN [ result |-> "CaptureFailed", pool |-> pool, polls |-> i ]
    ELSE IF script[i] # pool
    THEN WaitLoop(script[i], script, fit, i + 1, TRUE)
    ELSE IF diff_flag
    THEN [ result |-> "Ok", pool |-> pool, polls |-> i ]
    ELSE WaitLoop(pool, script, fit, i + 1, diff_flag)

\* variant: diff_flag starts out set
wait_until_switched_preset(is_cloud, pool, script, fit) ==
    IF is_cloud
    THEN [ result |-> "Ok", pool |-> pool, polls |-> 0 ]
    ELSE WaitLoop(pool, script, fit, 1, TRUE)

\* [result, pool, polls]; in cloud mode one fixed sleep and no sample
wait_until_switched(is_cloud, pool, script, fit) ==
    IF is_cloud
    THEN [ result |-> "Ok", pool |-> pool, polls |-> 0 ]
    ELSE WaitLoop(pool, script, fit, 1, FALSE)

\* the samples read so far, the stored pool first
SampleAt(pool0, script, i) == IF i = 0 THEN pool0 ELSE script[i]

\* a sample differed from the value stored before it, and sample n equals it
DiffThenEqual(pool0, script, n) ==
    \E i \in 1..(n - 1) :
        /\ SampleAt(pool0, script, i) # SampleAt(pool0, script, i - 1)
        /\ script[n] = script[i]

\* what a wait_until_switched call did: its result, the pool it left stored,
\* the samples it read, and whether they differed and then repeated
WaitSeen(is_cloud, pool, script, fit) ==
    LET w == wait_until_switched(is_cloud, pool, script, fit)
    IN  [ result |-> w.result, pool |-> w.pool, polls |-> w.polls,
          pattern |-> DiffThenEqual(pool, script, w.polls) ]

\* every outcome of wait_until_switched, by mode and stored pool
WaitOutcomes ==
    [ is_cloud \in BOOLEAN, pool \in Pools |->
        UNION { { WaitSeen(is_cloud, pool, script, fit) : script \in WaitScripts(fit) } :
                fit \in 0..MaxWaitPolls } ]

(* ------------------- errors crossing handle_page_scroll --------------- *)
\* anyhow!("literal") carries a &'static str payload
AnyhowLiteral(msg) == [ payload |-> "str", msg |-> msg ]
None == "None"
downcast_ref_String(e) == IF e.payload = "String" THEN e.msg ELSE None

\* Ok(()), or the error handle_page_scroll returns for a scroll_rows result
OkUnit == [ payload |-> "none", msg |-> "Ok" ]
handle_page_scroll_result(scroll_result) ==
    IF scroll_result = "TimeLimitExceeded" THEN AnyhowLiteral("scroll_timeout")
    ELSE IF scroll_result = "Interrupt" THEN AnyhowLiteral("user_interrupt")
    ELSE OkUnit

\* what the generator returns for an error of handle_page_scroll
GeneratorScrollReturn(e) ==
    IF downcast_ref_String(e) = "user_interrupt" THEN "Interrupted" ELSE "Err"

(* ------------------------ driver helpers (send) ----------------------- *)
is_page_first_artifact(cur_index, row, col) ==
    LET page_size == col * row
    IN  cur_index % page_size = 0

get_start_row(max_count, cur_index, row, col) ==
    LET page_size == col * row
    IN  IF max_count - cur_index >= page_size
        THEN 0
        ELSE LET remain == max_count - cur_index
                 remain_row == (remain + col - 1) \div col
                 scroll_row == Min(remain_row, row)
             IN  row - scroll_row

\* the panel image of a cell: what it shows, and the level printed on it
Panel(content, level) == [ content |-> content, level |-> level ]
\* the list strip of a page: the row it starts at and the lock marks on it
NoImage == [ some |-> FALSE, start_row |-> 0, locks |-> << >> ]
SomeImage(start_row, locks) ==
    [ some |-> TRUE, start_row |-> start_row, locks |-> locks ]
SendItem(panel, star, list_image) ==
    [ panel_image |-> panel, star |-> star, list_image |-> list_image ]

(* ------------------------------- state -------------------------------- *)
VARIABLES
    cfg,            \* item count, page geometry and configuration of the run
    pc,             \* position of the Controller coroutine
    state,          \* the coroutine's ScanState
    row_it,         \* loop variable `row`
    col_it,         \* loop variable `col`
    controller_row, \* rows visited per page in this pass of the outer loop
    row_item_count, \* cells of the current row
    scroll_left,    \* scroll_one_row calls left in scroll_rows
    ctl,            \* fields of GenshinRepositoryScanController
    ret,            \* what the coroutine returned
    drv,            \* the driver loop of send()
    chan,           \* messages in flight from the driver to the Worker
    built,          \* per SendItem built: has a list image / cell was page-first,
                    \* the start row of the image / of the Controller's page
    obs,            \* what the run observed so far (history)
    wk,             \* the Worker thread: its loop state and its receiver
    fn_args,        \* arguments of the library function being exercised
    fn_out          \* what that function has computed from them so far

vars == << cfg, pc, state, row_it, col_it, controller_row, row_item_count,
           scroll_left, ctl, ret, drv, chan, built, obs, wk, fn_args, fn_out >>

\* the variables the scan pipeline leaves alone
call == << fn_args, fn_out >>
\* no library function is being exercised
NoCall == [ fn |-> "none" ]

Configs ==
    [ item_count : 0..MaxItems, row : 1..MaxRow, col : 1..MaxCol,
      is_cloud : BOOLEAN, max_row : MaxRowChoices, min_star : { DefaultMinStar },
      min_level : { DefaultMinLevel }, ignore_dup : { FALSE } ]

ControllerNew ==
    [ pool |-> 0, initial_color |-> BlackColor, scrolled_rows |-> 0,
      scroll_sum |-> 0, scanned_count |-> 0 ]

\* the Worker thread as spawned by run()
WorkerNew ==
    [ status |-> "running", rx_alive |-> TRUE, results |-> << >>, hash |-> {},
      consecutive_dup_count |-> 0, locks |-> << >>, artifact_index |-> 0,
      exit |-> "none", scanned |-> << >>, warned |-> << >>,
      cells_at_exit |-> 0, sends_at_exit |-> 0 ]

NoScroll == [ result |-> "none", count |-> 0, pattern |-> FALSE ]
NoWait == [ result |-> "none", polls |-> 0, pattern |-> FALSE ]
ObsInit ==
    [ cancel |-> "none", errs |-> {}, yields |-> 0, fresh |-> TRUE,
      cell_fresh |-> FALSE, scroll |-> NoScroll, failed_scroll |-> FALSE,
      wait |-> NoWait, params |-> << 0, 0 >> ]

InitFor(c) ==
    /\ fn_args = NoCall
    /\ fn_out = NoCall
    /\ cfg = c
    /\ pc = "start"
    /\ state = ScanStateNew(0, 1)
    /\ row_it = 0
    /\ col_it = 0
    /\ controller_row = 0
    /\ row_item_count = 0
    /\ scroll_left = 0
    /\ ctl = ControllerNew
    /\ ret = "none"
    /\ drv = [ artifact_index |-> 0, status |-> "running" ]
    /\ chan = << >>
    /\ built = << >>
    /\ obs = ObsInit
    /\ wk = WorkerNew

Init == \E c \in Configs : InitFor(c)

\* the coroutine completes with result r; the driver's resume() returns
\* CoroutineState::Complete, it logs the result and leaves its loop
Complete(r) ==
    /\ ret' = r
    /\ pc' = "done"
    /\ drv' = [ drv EXCEPT !.status = "complete" ]

\* an unwrap() on a failed port call unwinds the whole thread
Panic ==
    /\ ret' = "none"
    /\ pc' = "panicked"
    /\ drv' = [ drv EXCEPT !.status = "panicked" ]

Saw(kind) == [ obs EXCEPT !.errs = obs.errs \cup { kind } ]

(* ----------------------- Controller coroutine ------------------------- *)
\* first resume: ScanState::new and initialize_scan_environment
GenStart ==
    /\ UNCHANGED call
    /\ pc = "start"
    /\ drv.status = "running"
    /\ state' = ScanStateNew(cfg.item_count, cfg.col)
    /\ UNCHANGED << cfg, row_it, col_it, controller_row, row_item_count,
                    scroll_left, chan, built, wk >>
    /\ \E input \in { "move_err", "click_err", "ok" } :
        IF input = "move_err"
        THEN /\ Panic
             /\ obs' = Saw("move")
             /\ UNCHANGED ctl
        ELSE IF input = "click_err"
        THEN /\ Complete("Err")
             /\ obs' = Saw("click")
             /\ UNCHANGED ctl
        ELSE \E sample \in ColorSamples :
             IF sample = ColorErr
             THEN /\ Complete("Err")
                  /\ obs' = Saw("capture")
                  /\ UNCHANGED ctl
             ELSE /\ ctl' = [ ctl EXCEPT !.initial_color = sample ]
                  /\ pc' = "outer"
                  /\ UNCHANGED << ret, drv, obs >>

\* head of `while !state.is_scan_complete()`
OuterHead ==
    /\ UNCHANGED call
    /\ pc = "outer"
    /\ UNCHANGED << cfg, state, col_it, row_item_count, scroll_left, ctl,
                    chan, built, wk >>
    /\ obs' = [ obs EXCEPT !.scroll = NoScroll ]
    /\ IF ~is_scan_complete(state)
       THEN /\ controller_row' = Min(cfg.row, state.total_row)
            /\ row_it' = state.start_row
            /\ pc' = "row_head"
            /\ UNCHANGED << ret, drv >>
       ELSE /\ Complete("Finished")
            /\ UNCHANGED << controller_row, row_it >>

\* head of `for row in state.start_row..controller_row`
RowHead ==
    /\ UNCHANGED call
    /\ pc = "row_head"
    /\ UNCHANGED << cfg, state, row_it, controller_row, scroll_left, ctl, ret,
                    drv, chan, built, obs, wk >>
    /\ IF row_it < controller_row
       THEN /\ row_item_count' =
                   IF state.scanned_row = state.total_row - 1
                   THEN state.last_row_col ELSE cfg.col
            /\ col_it' = 0
            /\ pc' = "col_head"
       ELSE /\ pc' = "page_end"
            /\ UNCHANGED << row_item_count, col_it >>

\* `for col in 0..row_item_count`: one cell is moved to, clicked and waited for
CellVisit ==
    /\ UNCHANGED call
    /\ pc = "col_head"
    /\ col_it < row_item_count
    /\ UNCHANGED << cfg, state, row_it, col_it, controller_row, row_item_count,
                    scroll_left, chan, built, wk >>
    /\ IF state.scanned_count >= state.item_count
       THEN /\ Complete("Finished")
            /\ UNCHANGED << ctl, obs >>
       ELSE \E rmb \in BOOLEAN :
            IF rmb
            THEN /\ Complete("Interrupted")
                 /\ obs' = [ obs EXCEPT !.cancel = "cell" ]
                 /\ UNCHANGED ctl
            ELSE \E input \in { "move_err", "click_err", "ok" } :
            IF input = "move_err"
            THEN /\ Panic
                 /\ obs' = Saw("move")
                 /\ UNCHANGED ctl
            ELSE IF input = "click_err"
            THEN /\ Complete("Err")
                 /\ obs' = Saw("click")
                 /\ UNCHANGED ctl
            ELSE \E w \in WaitOutcomes[cfg.is_cloud, ctl.pool] :
                 LET seen == [ result |-> w.result, polls |-> w.polls,
                               pattern |-> w.pattern ]
                 IN  IF w.result = "Ok"
                     THEN /\ ctl' = [ ctl EXCEPT
                                 !.pool = w.pool,
                                 !.scanned_count =
                                     IF cfg.is_cloud THEN @ ELSE @ + 1 ]
                          /\ pc' = "yielded"
                          /\ obs' = [ obs EXCEPT !.yields = @ + 1,
                                                 !.cell_fresh = obs.fresh,
                                                 !.fresh = FALSE,
                                                 !.wait = seen ]
                          /\ UNCHANGED << ret, drv >>
                     ELSE /\ ctl' = [ ctl EXCEPT !.pool = w.pool ]
                          /\ Complete("Err")
                          /\ obs' = [ Saw("wait") EXCEPT !.wait = seen ]

\* the column loop is exhausted: count the row, stop at the last row
RowEnd ==
    /\ UNCHANGED call
    /\ pc = "col_head"
    /\ col_it >= row_item_count
    /\ state' = [ state EXCEPT !.scanned_row = @ + 1 ]
    /\ UNCHANGED << cfg, col_it, controller_row, row_item_count, scroll_left,
                    ctl, chan, built, obs, wk >>
    /\ IF is_max_row_reached(state')
       THEN /\ Complete("Finished")
            /\ UNCHANGED row_it
       ELSE /\ row_it' = row_it + 1
            /\ pc' = "row_head"
            /\ UNCHANGED << ret, drv >>

\* the coroutine is resumed after a yield
GenResume ==
    /\ UNCHANGED call
    /\ pc = "resumed"
    /\ state' = [ state EXCEPT !.scanned_count = @ + 1 ]
    /\ ctl' = [ ctl EXCEPT !.scanned_count = state'.scanned_count ]
    /\ col_it' = col_it + 1
    /\ pc' = "col_head"
    /\ UNCHANGED << cfg, row_it, controller_row, row_item_count, scroll_left,
                    ret, drv, chan, built, obs, wk >>

(* ----------------------------- paging --------------------------------- *)
\* the generator's handling of what handle_page_scroll returns for scroll_rows'
\* result r: Ok goes back to the outer loop, an error ends the run
AfterScrollRows(r) ==
    LET e == handle_page_scroll_result(r)
    IN  IF e = OkUnit
        THEN /\ pc' = "outer"
             /\ UNCHANGED << ret, drv >>
        ELSE Complete(GeneratorScrollReturn(e))

\* after the row loop: handle_page_scroll if items remain, with scroll_rows
\* polling row by row
PageScrollBegin ==
    /\ UNCHANGED call
    /\ pc = "page_end"
    /\ is_scan_complete(state) \/ ctl.scrolled_rows < ScrolledRowsFast
    /\ IF is_scan_complete(state)
       THEN /\ pc' = "outer"
            /\ UNCHANGED << state, scroll_left, ret, drv, obs >>
       ELSE LET params == calculate_remaining_scan_params(state, cfg.row)
            IN  /\ state' = [ state EXCEPT !.start_row = params[2] ]
                /\ scroll_left' = params[1]
                /\ IF params[1] > 0
                   THEN /\ pc' = "scroll_loop"
                        /\ UNCHANGED << ret, drv >>
                        /\ obs' = [ obs EXCEPT !.params = params ]
                   ELSE /\ AfterScrollRows("Success")
                        /\ obs' = [ obs EXCEPT !.params = params, !.fresh = TRUE ]
    /\ UNCHANGED << cfg, row_it, col_it, controller_row, row_item_count, ctl,
                    chan, built, wk >>

\* handle_page_scroll, scroll_rows by the estimated length, then align_row
PageScrollFast ==
    /\ UNCHANGED call
    /\ pc = "page_end"
    /\ ~is_scan_complete(state)
    /\ ctl.scrolled_rows >= ScrolledRowsFast
    /\ LET params == calculate_remaining_scan_params(state, cfg.row)
           length == estimate_scroll_length(ctl, params[1])
       IN  /\ state' = [ state EXCEPT !.start_row = params[2] ]
           /\ \E scroll_ok \in BOOLEAN, sample \in ColorSamples,
                 align_ok \in BOOLEAN :
               IF length > 0 /\ ~scroll_ok
               THEN /\ AfterScrollRows("Failed")
                    /\ obs' = [ Saw("scroll_failed") EXCEPT
                                  !.params = params, !.fresh = TRUE,
                                  !.failed_scroll = TRUE ]
               ELSE IF align_row(ctl.initial_color, sample, align_ok) = "panic"
               THEN /\ Panic
                    /\ obs' = [ Saw("scroll_input") EXCEPT !.params = params ]
               ELSE /\ AfterScrollRows("Skip")
                    /\ obs' = [ obs EXCEPT !.params = params, !.fresh = TRUE ]
    /\ UNCHANGED << cfg, row_it, col_it, controller_row, row_item_count,
                    scroll_left, ctl, chan, built, wk >>

\* one scroll_one_row call of scroll_rows' loop
ScrollOneRow ==
    /\ UNCHANGED call
    /\ pc = "scroll_loop"
    /\ scroll_left > 0
    /\ UNCHANGED << cfg, state, row_it, col_it, controller_row, row_item_count,
                    chan, built, wk >>
    /\ \E seen \in ScrollOutcomes[ctl.initial_color] :
        LET res == seen
        IN  IF res.result = "Success"
            THEN /\ ctl' = update_avg_row(ctl, res.count)
                 /\ scroll_left' = scroll_left - 1
                 /\ IF scroll_left = 1
                    THEN /\ AfterScrollRows("Success")
                         /\ obs' = [ obs EXCEPT !.scroll = seen, !.fresh = TRUE ]
                    ELSE /\ obs' = [ obs EXCEPT !.scroll = seen ]
                         /\ UNCHANGED << pc, ret, drv >>
            ELSE /\ AfterScrollRows(res.result)
                 /\ UNCHANGED << ctl, scroll_left >>
                 /\ obs' = IF res.result = "Interrupt"
                           THEN [ obs EXCEPT !.scroll = seen, !.cancel = "scroll" ]
                           ELSE IF res.result = "Failed"
                           THEN [ Saw("scroll_failed") EXCEPT
                                    !.scroll = seen, !.fresh = TRUE,
                                    !.failed_scroll = TRUE ]
                           ELSE [ Saw("scroll") EXCEPT !.scroll = seen ]

(* ------------------------ the driver loop (send) ---------------------- *)
\* variant: the comparison is off by one star
BelowMinStarLoose(star, min_star) == star + 1 < min_star

\* `(star as i32) < self.scanner_config.min_star`
BelowMinStar(star, min_star) == star < min_star

SomeMsg(item) == [ some |-> TRUE, item |-> item ]
NoneMsg == [ some |-> FALSE, item |-> SendItem(Panel(0, 0), 0, NoImage) ]

\* CoroutineState::Yielded: capture, build the SendItem, filter, send; the
\* panel captured is one of `panels`
DriverYieldedOn(panels) ==
    /\ UNCHANGED call
    /\ pc = "yielded"
    /\ UNCHANGED << cfg, state, row_it, col_it, controller_row, row_item_count,
                    scroll_left, ctl, ret, wk >>
    /\ \E star \in Stars \cup { StarErr } : \E capture_ok \in BOOLEAN :
      \E panel \in panels :
        LET first == is_page_first_artifact(drv.artifact_index, cfg.row, cfg.col)
            list_image ==
                IF first
                THEN SomeImage(get_start_row(cfg.item_count, drv.artifact_index,
                                             cfg.row, cfg.col), << >>)
                ELSE NoImage
            item == SendItem(panel, star, list_image)
        IN  IF ~capture_ok \/ star = StarErr
            THEN /\ Panic
                 /\ obs' = [ Saw("driver_capture") EXCEPT !.wait = NoWait ]
                 /\ UNCHANGED << chan, built >>
            ELSE IF BelowMinStar(star, cfg.min_star)
            THEN /\ drv' = [ artifact_index |-> drv.artifact_index + 1,
                             status |-> "star_stop" ]
                 /\ pc' = "dropped"
                 /\ obs' = [ obs EXCEPT !.wait = NoWait ]
                 /\ UNCHANGED << chan, built >>
            ELSE /\ built' = Append(built, [ list_some |-> list_image.some,
                                             fresh |-> obs.cell_fresh,
                                             image_start_row |-> list_image.start_row,
                                             visit_start_row |-> state.start_row ])
                 /\ IF wk.rx_alive
                    THEN /\ chan' = Append(chan, SomeMsg(item))
                         /\ drv' = [ drv EXCEPT !.artifact_index = @ + 1 ]
                         /\ pc' = "resumed"
                    ELSE /\ drv' = [ artifact_index |-> drv.artifact_index + 1,
                                     status |-> "send_failed" ]
                         /\ pc' = "dropped"
                         /\ UNCHANGED chan
                 /\ obs' = [ obs EXCEPT !.wait = NoWait ]
    /\ UNCHANGED ret

\* the panel of cell i shows item i, at level 0
DriverYielded == DriverYieldedOn({ Panel(drv.artifact_index, 0) })

Next ==
    \/ GenStart
    \/ OuterHead
    \/ RowHead
    \/ CellVisit
    \/ RowEnd
    \/ GenResume
    \/ PageScrollBegin
    \/ PageScrollFast
    \/ ScrollOneRow
    \/ DriverYielded

Spec == Init /\ [][Next]_vars

(* ---------------------- ScanState::new on its own --------------------- *)
NewConfigs ==
    [ item_count : 1..MaxNewItems, row : { 1 }, col : 1..MaxNewCol,
      is_cloud : { FALSE }, max_row : { DefaultMaxRow },
      min_star : { DefaultMinStar }, min_level : { DefaultMinLevel },
      ignore_dup : { FALSE } ]

InitNew == \E c \in NewConfigs : InitFor(c) /\ pc = "start"

\* `let mut state = ScanState::new(item_count, col)`
NewApply ==
    /\ UNCHANGED call
    /\ pc = "start"
    /\ state' = ScanStateNew(cfg.item_count, cfg.col)
    /\ pc' = "new_done"
    /\ UNCHANGED << cfg, row_it, col_it, controller_row, row_item_count,
                    scroll_left, ctl, ret, drv, chan, built, obs, wk >>

NextNew == NewApply

SpecNew == InitNew /\ [][NextNew]_vars

(* --------------------------- the Worker thread ------------------------ *)
WorkerConfigs ==
    [ item_count : { MaxMsgs }, row : { MaxRow }, col : 1..MaxCol,
      is_cloud : { FALSE }, max_row : { DefaultMaxRow },
      min_star : { DefaultMinStar }, min_level : Levels,
      ignore_dup : BOOLEAN ]

InitWorker == \E c \in WorkerConfigs : InitFor(c)

\* get_page_locks_optimized: the lock marks read off a list strip
get_page_locks_optimized(list_image) == list_image.locks

\* the content fields of a GenshinArtifactScanResult, which Hash and
\* PartialEq compare
ScanResult(content, level, lock) ==
    [ content |-> content, level |-> level, lock |-> lock ]

\* scan_item_image_optimized: what is read off the panel, with the lock given
\* a level that cannot be read or parsed is replaced by 0
scan_item_image_optimized(item, lock) ==
    ScanResult(item.panel_image.content,
               IF item.panel_image.level = LevelErr THEN 0
               ELSE item.panel_image.level,
               lock)

\* the scan_errors of that result: the failure on the level, if any
scan_item_errors(item) ==
    IF item.panel_image.level = LevelErr THEN << "LevelParsingFailed" >>
    ELSE << >>

\* locks.get(i).copied().unwrap_or(false), i counted from 0
LockAt(locks, i) == IF i + 1 <= Len(locks) THEN locks[i + 1] ELSE FALSE

\* variant: nothing is ever found in the set
HashContainsNothing(hash, result) == FALSE

\* `hash.contains(&result)`
HashContains(hash, result) == result \in hash

\* variant: the comparison is off by one level
BelowMinLevelLoose(level, min_level) == level + 1 < min_level

\* `result.level < min_level`
BelowMinLevel(level, min_level) == level < min_level

\* variant: the streak must exceed col
DupStreakOver(count, col, ignore_dup) == count > col /\ ~ignore_dup

\* `consecutive_dup_count >= info.col as usize && !self.config.ignore_dup`
DupStreak(count, col, ignore_dup) == count >= col /\ ~ignore_dup

\* the list strips a page of row * col cells can show: every cell marked
\* locked, or none
PageStrips(start_row, row, col) ==
    { SomeImage(start_row, [ i \in 1..(row * col) |-> mark ]) : mark \in BOOLEAN }

\* send() for one cell, as the Worker sees it: a 5-star item whose panel shows
\* content c at level l; a page-first item carries the page's list strip
DriverSend ==
    /\ UNCHANGED call
    /\ drv.status = "running"
    /\ drv.artifact_index < cfg.item_count
    /\ \E c \in Contents, l \in Levels :
       \E list_image \in
             IF is_page_first_artifact(drv.artifact_index, cfg.row, cfg.col)
             THEN PageStrips(get_start_row(cfg.item_count, drv.artifact_index,
                                           cfg.row, cfg.col), cfg.row, cfg.col)
             ELSE { NoImage } :
        LET item == SendItem(Panel(c, l), DefaultMinStar, list_image)
        IN  /\ drv' = [ drv EXCEPT
                          !.artifact_index = @ + 1,
                          !.status = IF wk.rx_alive THEN @ ELSE "send_failed" ]
            /\ chan' = IF wk.rx_alive THEN Append(chan, SomeMsg(item)) ELSE chan
    /\ UNCHANGED << cfg, pc, state, row_it, col_it, controller_row,
                    row_item_count, scroll_left, ctl, ret, built, obs, wk >>

\* scan(): after send() returns, `tx.send(None)`
DriverSendNone ==
    /\ UNCHANGED call
    /\ drv.status \in { "running", "send_failed" }
    /\ drv' = [ drv EXCEPT !.status = "closed" ]
    /\ chan' = IF wk.rx_alive THEN Append(chan, NoneMsg) ELSE chan
    /\ UNCHANGED << cfg, pc, state, row_it, col_it, controller_row,
                    row_item_count, scroll_left, ctl, ret, built, obs, wk >>

\* the loop is left but the receiver outlives it
WorkerExitRxKept(w, why) ==
    [ w EXCEPT !.status = "finished", !.exit = why,
               !.cells_at_exit = obs.yields, !.sends_at_exit = Len(built) ]

\* the Worker leaves its loop: the receiver is dropped with the iterator of
\* the `for`; the cells visited and the SendItems built so far are noted
WorkerExit(w, why) ==
    [ w EXCEPT !.status = "finished", !.exit = why, !.rx_alive = FALSE,
               !.cells_at_exit = obs.yields, !.sends_at_exit = Len(built) ]

\* one pass of `for item in rx.into_iter()`
WorkerStep ==
    /\ UNCHANGED call
    /\ wk.status = "running"
    /\ chan # << >>
    /\ UNCHANGED << cfg, pc, state, row_it, col_it, controller_row,
                    row_item_count, scroll_left, ctl, ret, drv, built, obs >>
    /\ LET msg == Head(chan)
           item == msg.item
           locks == IF item.list_image.some
                    THEN wk.locks \o get_page_locks_optimized(item.list_image)
                    ELSE wk.locks
           index == wk.artifact_index + 1
           result == scan_item_image_optimized(item, LockAt(locks, index - 1))
           dup == HashContains(wk.hash, result)
           count == IF dup THEN wk.consecutive_dup_count + 1 ELSE 0
           w1 == [ wk EXCEPT !.locks = locks, !.artifact_index = index,
                             !.warned = Append(@, scan_item_errors(item)) ]
           w2 == [ w1 EXCEPT
                     !.consecutive_dup_count = count,
                     !.hash = IF dup THEN @ ELSE @ \cup { result },
                     !.results = IF dup THEN @ ELSE Append(@, result),
                     !.scanned = Append(@, result) ]
       IN  IF ~msg.some
           THEN wk' = WorkerExit(wk, "none")
           ELSE IF BelowMinLevel(result.level, cfg.min_level)
           THEN wk' = WorkerExit(w1, "min_level")
           ELSE IF DupStreak(count, cfg.col, cfg.ignore_dup)
           THEN wk' = WorkerExit(w2, "dup_streak")
           ELSE wk' = w2
    \* a dropped receiver frees what was still queued
    /\ chan' = IF wk'.rx_alive THEN Tail(chan) ELSE << >>

NextWorker ==
    \/ DriverSend
    \/ DriverSendNone
    \/ WorkerStep

SpecWorker == InitWorker /\ [][NextWorker]_vars

(* ------------------ scan(): the two threads together ------------------ *)
\* the inventories scanned: item i at level 1 in every cell, but for the
\* second cell, which can also show the first item again, a level below
\* every positive min_level, or a level that cannot be read
SecondCells == { Panel(2, 1), Panel(1, 1), Panel(2, 0), Panel(2, LevelErr) }

Inventory(second) ==
    [ i \in 1..MaxItems |-> IF i = 2 THEN second ELSE Panel(i, 1) ]

PipelineConfigs ==
    [ item_count : { MaxItems }, row : { 1 }, col : { 1 },
      is_cloud : { FALSE }, max_row : { DefaultMaxRow },
      min_star : { DefaultMinStar }, min_level : Levels,
      ignore_dup : { FALSE },
      inventory : { Inventory(second) : second \in SecondCells } ]

InitPipeline == \E c \in PipelineConfigs : InitFor(c)

\* the panel captured at the cell the Controller has moved to
PipelineYielded == DriverYieldedOn({ cfg.inventory[drv.artifact_index + 1] })

\* send() has returned
SendReturned == drv.status \in { "complete", "star_stop", "send_failed" }

\* `tx.send(None)` after send()
ScanSendNone ==
    /\ UNCHANGED call
    /\ SendReturned
    /\ drv' = [ drv EXCEPT !.status = "closed" ]
    /\ chan' = IF wk.rx_alive THEN Append(chan, NoneMsg) ELSE chan
    /\ UNCHANGED << cfg, pc, state, row_it, col_it, controller_row,
                    row_item_count, scroll_left, ctl, ret, built, obs, wk >>

\* `v.iter().filter(|a| a.level >= min_level)`
RECURSIVE FilterMinLevel(_, _)
FilterMinLevel(results, min_level) ==
    IF results = << >> THEN << >>
    ELSE IF Head(results).level >= min_level
    THEN << Head(results) >> \o FilterMinLevel(Tail(results), min_level)
    ELSE FilterMinLevel(Tail(results), min_level)

\* `join_handle.join()` returns the Worker's results and scan() returns them
ScanJoin ==
    /\ drv.status = "closed"
    /\ wk.status = "finished"
    /\ drv' = [ drv EXCEPT !.status = "returned" ]
    /\ fn_out' = [ ok |-> TRUE,
                   results |-> FilterMinLevel(wk.results, cfg.min_level) ]
    /\ UNCHANGED << fn_args, cfg, pc, state, row_it, col_it, controller_row,
                    row_item_count, scroll_left, ctl, ret, chan, built, obs,
                    wk >>

\* the scan thread unwound and dropped the sender: once the queue is empty
\* the Worker's iteration over the receiver ends
WorkerDisconnected ==
    /\ UNCHANGED call
    /\ wk.status = "running"
    /\ chan = << >>
    /\ drv.status = "panicked"
    /\ wk' = WorkerExit(wk, "disconnected")
    /\ UNCHANGED << cfg, pc, state, row_it, col_it, controller_row,
                    row_item_count, scroll_left, ctl, ret, drv, chan, built,
                    obs >>

NextPipeline ==
    \/ GenStart
    \/ OuterHead
    \/ RowHead
    \/ CellVisit
    \/ RowEnd
    \/ GenResume
    \/ PageScrollBegin
    \/ PageScrollFast
    \/ ScrollOneRow
    \/ PipelineYielded
    \/ WorkerStep
    \/ WorkerDisconnected
    \/ ScanSendNone
    \/ ScanJoin

SpecPipeline == InitPipeline /\ [][NextPipeline]_vars

\* every thread keeps running while it can take a step
SpecPipelineFair == SpecPipeline /\ WF_vars(NextPipeline)

(* ------------------- library functions on their own ------------------- *)
\* the pipeline at rest while one library function is exercised
DefaultConfig ==
    [ item_count |-> 0, row |-> 1, col |-> 1, is_cloud |-> FALSE,
      max_row |-> DefaultMaxRow, min_star |-> DefaultMinStar,
      min_level |-> DefaultMinLevel, ignore_dup |-> FALSE ]

InitCall(a) ==
    /\ fn_args = a
    /\ fn_out = NoCall
    /\ cfg = DefaultConfig
    /\ pc = "call"
    /\ state = ScanStateNew(0, 1)
    /\ row_it = 0
    /\ col_it = 0
    /\ controller_row = 0
    /\ row_item_count = 0
    /\ scroll_left = 0
    /\ ctl = ControllerNew
    /\ ret = "none"
    /\ drv = [ artifact_index |-> 0, status |-> "running" ]
    /\ chan = << >>
    /\ built = << >>
    /\ obs = ObsInit
    /\ wk = WorkerNew

pipeline ==
    << cfg, state, row_it, col_it, controller_row, row_item_count, scroll_left,
       ctl, ret, drv, chan, built, obs, wk >>

(* ------------------------------ parse_level --------------------------- *)
\* texts are sequences of characters
Digits == { "0", "1", "5" }
Chars == Digits \cup { "+", "-", "a" }
Texts(n) == UNION { [ 1..k -> Chars ] : k \in 0..n }

DigitValue(c) == IF c = "0" THEN 0 ELSE IF c = "1" THEN 1 ELSE 5

ParseOk(v) == [ ok |-> TRUE, value |-> v ]
ParseErr == [ ok |-> FALSE, value |-> 0 ]

\* str::find: the index of the first c in s, 0 for None
Find(s, c) ==
    IF \E i \in 1..Len(s) : s[i] = c
    THEN CHOOSE i \in 1..Len(s) : s[i] = c /\ \A j \in 1..(i - 1) : s[j] # c
    ELSE 0

\* the digit loop of str::parse::<i32>: result = result * 10 + digit, an
\* overflow or a character that is no digit is an error
RECURSIVE ParseDigits(_, _, _)
ParseDigits(s, i, acc) ==
    IF i > Len(s) THEN ParseOk(acc)
    ELSE IF s[i] \notin Digits THEN ParseErr
    ELSE IF acc > (I32Max - DigitValue(s[i])) \div 10 THEN ParseErr
    ELSE ParseDigits(s, i + 1, acc * 10 + DigitValue(s[i]))

\* str::parse::<i32>: an optional sign, then at least one digit
parse_i32(s) ==
    IF Len(s) = 0 THEN ParseErr
    ELSE LET signed == s[1] \in { "+", "-" }
             digits == IF signed THEN Tail(s) ELSE s
             magnitude == ParseDigits(digits, 1, 0)
         IN  IF Len(digits) = 0 \/ ~magnitude.ok THEN ParseErr
             ELSE IF s[1] = "-" THEN ParseOk(0 - magnitude.value)
             ELSE magnitude

\* variant: the text after the '+' is parsed, without the '+'
parse_level_after(s) ==
    LET pos == Find(s, "+")
    IN  IF pos = 0 THEN parse_i32(s)
        ELSE parse_i32(SubSeq(s, pos + 1, Len(s)))

parse_level(s) ==
    LET pos == Find(s, "+")
    IN  IF pos = 0 THEN parse_i32(s)
        ELSE parse_i32(SubSeq(s, pos, Len(s)))

InitLevel == \E s \in Texts(MaxLevelLen) : InitCall(s)

ParseLevelCall ==
    /\ pc = "call"
    /\ fn_out' = parse_level(fn_args)
    /\ pc' = "returned"
    /\ UNCHANGED << fn_args, pipeline >>

NextLevel == ParseLevelCall

SpecLevel == InitLevel /\ [][NextLevel]_vars

(* ----------------------- GenshinArtifactScanResult --------------------- *)
\* the variants of ArtifactScanError
ErrorKinds ==
    { "OcrRecognitionFailed", "ImageCaptureFailed", "ArtifactParsingFailed",
      "ConsecutiveDuplicateItems", "StarRecognitionFailed", "LevelParsingFailed",
      "ModelLoadFailed", "WindowInfoFailed", "ScanInterrupted", "Unknown" }

ScanError(kind, field) == [ kind |-> kind, field |-> field ]

\* Display for ArtifactScanError: the variant's label and its fields as text
to_string(error) == << error.kind, error.field >>

\* confidence_score is kept exactly, as num / ConfidenceBase^exp
ConfidenceBase == 20
Confidence(num, exp) == [ num |-> num, exp |-> exp ]

\* the factor add_error applies, in twentieths: 0.8, 0.7, 0.9, 0.9, 0.95
ConfidenceFactor(kind) ==
    IF kind = "OcrRecognitionFailed" THEN 16
    ELSE IF kind = "ArtifactParsingFailed" THEN 14
    ELSE IF kind = "StarRecognitionFailed" THEN 18
    ELSE IF kind = "LevelParsingFailed" THEN 18
    ELSE 19

\* GenshinArtifactScanResult::new
NewScanResult(name, main_stat_name, main_stat_value, sub_stat, equip, level, star, lock) ==
    [ name |-> name, main_stat_name |-> main_stat_name,
      main_stat_value |-> main_stat_value, sub_stat |-> sub_stat,
      equip |-> equip, level |-> level, star |-> star, lock |-> lock,
      scan_errors |-> << >>, confidence_score |-> Confidence(1, 0) ]

\* variant: the confidence is scaled, the error is not recorded
add_error_silent(r, error) ==
    [ r EXCEPT !.confidence_score =
                   Confidence(@.num * ConfidenceFactor(error.kind), @.exp + 1) ]

add_error(r, error) ==
    LET scaled == r.confidence_score.num * ConfidenceFactor(error.kind)
    IN  [ r EXCEPT
            !.scan_errors = Append(@, to_string(error)),
            !.confidence_score =
                Confidence(IF scaled >= 0 THEN scaled ELSE 0, @.exp + 1) ]

\* variant: equality over every field, errors and confidence included
ResultEqAll(a, b) == a = b

\* impl PartialEq: the eight content fields, nothing else
ResultEq(a, b) ==
    /\ a.name = b.name
    /\ a.main_stat_name = b.main_stat_name
    /\ a.main_stat_value = b.main_stat_value
    /\ a.sub_stat = b.sub_stat
    /\ a.equip = b.equip
    /\ a.level = b.level
    /\ a.star = b.star
    /\ a.lock = b.lock

\* impl Hash: what is fed to the hasher, in order
ResultHash(a) ==
    << a.name, a.main_stat_name, a.main_stat_value, a.sub_stat, a.equip,
       a.level, a.star, a.lock >>

\* HashSet::contains: an element of equal hash that compares equal
SetContains(set, r) ==
    \E x \in set : ResultHash(x) = ResultHash(r) /\ ResultEq(x, r)

\* `for error in &result_errors { result.add_error(error) }`
RECURSIVE AddErrors(_, _, _)
AddErrors(r, errors, i) ==
    IF i > Len(errors) THEN r
    ELSE AddErrors(add_error(r, errors[i]), errors, i + 1)

\* the arguments of new: a base content and its one-field variations
BaseContent(lock) ==
    [ name |-> "flower", main_stat_name |-> "hp", main_stat_value |-> "4780",
      sub_stat |-> << "atk+5.8%", "def+7.3%", "crit rate+3.9%", "hp+299" >>,
      equip |-> "", level |-> 20, star |-> 5, lock |-> lock ]

ContentFields ==
    { "name", "main_stat_name", "main_stat_value", "sub_stat_1", "sub_stat_2",
      "sub_stat_3", "sub_stat_4", "equip", "level", "star", "lock" }

Vary(c, f) ==
    IF f = "name" THEN [ c EXCEPT !.name = "plume" ]
    ELSE IF f = "main_stat_name" THEN [ c EXCEPT !.main_stat_name = "atk" ]
    ELSE IF f = "main_stat_value" THEN [ c EXCEPT !.main_stat_value = "311" ]
    ELSE IF f = "sub_stat_1" THEN [ c EXCEPT !.sub_stat[1] = "" ]
    ELSE IF f = "sub_stat_2" THEN [ c EXCEPT !.sub_stat[2] = "" ]
    ELSE IF f = "sub_stat_3" THEN [ c EXCEPT !.sub_stat[3] = "" ]
    ELSE IF f = "sub_stat_4" THEN [ c EXCEPT !.sub_stat[4] = "" ]
    ELSE IF f = "equip" THEN [ c EXCEPT !.equip = "worn" ]
    ELSE IF f = "level" THEN [ c EXCEPT !.level = 0 ]
    ELSE IF f = "star" THEN [ c EXCEPT !.star = 4 ]
    ELSE IF f = "lock" THEN [ c EXCEPT !.lock = ~c.lock ]
    ELSE c

NewOf(c) ==
    NewScanResult(c.name, c.main_stat_name, c.main_stat_value, c.sub_stat,
                  c.equip, c.level, c.star, c.lock)

InitResult ==
    \E lock \in BOOLEAN, f \in ContentFields \cup { "none" } :
        InitCall(<< BaseContent(lock), Vary(BaseContent(lock), f) >>)

\* two results are constructed
ResultNew ==
    /\ pc = "call"
    /\ fn_out' = << NewOf(fn_args[1]), NewOf(fn_args[2]) >>
    /\ pc' = "built"
    /\ UNCHANGED << fn_args, pipeline >>

\* add_error on one of the two
ResultAddError ==
    /\ pc = "built"
    /\ Len(fn_out[1].scan_errors) + Len(fn_out[2].scan_errors) < MaxErrors
    /\ \E w \in 1..2, kind \in ErrorKinds :
           fn_out' = [ fn_out EXCEPT
                         ![w] = add_error(@, ScanError(kind, "detail")) ]
    /\ UNCHANGED << fn_args, pc, pipeline >>

NextResult == ResultNew \/ ResultAddError

SpecResult == InitResult /\ [][NextResult]_vars

(* ---------------------------- ErrorStatistics -------------------------- *)
\* the counter add_error increments for each variant
CounterOf ==
    [ OcrRecognitionFailed |-> "ocr_errors",
      ImageCaptureFailed |-> "image_capture_errors",
      ArtifactParsingFailed |-> "parsing_errors",
      StarRecognitionFailed |-> "star_recognition_errors",
      LevelParsingFailed |-> "level_parsing_errors",
      ConsecutiveDuplicateItems |-> "duplicate_items",
      ModelLoadFailed |-> "model_load_errors",
      WindowInfoFailed |-> "window_info_errors",
      ScanInterrupted |-> "interruption_errors",
      Unknown |-> "unknown_errors" ]

KindCounters == { CounterOf[kind] : kind \in ErrorKinds }

\* ErrorStatistics::new: every counter at zero
ErrorStatisticsNew ==
    [ c \in { "successful_scans", "total_errors" } \cup KindCounters |-> 0 ]

stats_add_error(stats, error) ==
    [ stats EXCEPT !["total_errors"] = @ + 1,
                   ![CounterOf[error.kind]] = @ + 1 ]

stats_add_success(stats) == [ stats EXCEPT !["successful_scans"] = @ + 1 ]

\* an f64 result, kept exactly as num / den
Ratio(num, den) == [ num |-> num, den |-> den ]
Percent == 100

\* variant: the fraction of successes, not scaled
get_success_fraction(stats) ==
    LET total_attempts == stats["successful_scans"] + stats["total_errors"]
    IN  IF total_attempts = 0 THEN Ratio(0, 1)
        ELSE Ratio(stats["successful_scans"], total_attempts)

get_success_rate(stats) ==
    LET total_attempts == stats["successful_scans"] + stats["total_errors"]
    IN  IF total_attempts = 0 THEN Ratio(0, 1)
        ELSE Ratio(stats["successful_scans"] * Percent, total_attempts)

\* fn_args is the list of calls made so far on the statistics in fn_out
InitStats == InitCall(<< >>)

StatsNew ==
    /\ pc = "call"
    /\ fn_out' = ErrorStatisticsNew
    /\ pc' = "built"
    /\ UNCHANGED << fn_args, pipeline >>

StatsAddSuccess ==
    /\ pc = "built"
    /\ Len(fn_args) < MaxAttempts
    /\ fn_out' = stats_add_success(fn_out)
    /\ fn_args' = Append(fn_args, "success")
    /\ UNCHANGED << pc, pipeline >>

StatsAddError ==
    /\ pc = "built"
    /\ Len(fn_args) < MaxAttempts
    /\ \E kind \in ErrorKinds :
           /\ fn_out' = stats_add_error(fn_out, ScanError(kind, "detail"))
           /\ fn_args' = Append(fn_args, kind)
    /\ UNCHANGED << pc, pipeline >>

NextStats == StatsNew \/ StatsAddSuccess \/ StatsAddError

SpecStats == InitStats /\ [][NextStats]_vars

(* ---------------------- scan_item_image_optimized --------------------- *)
\* what the recognizer returns for one region
OcrOk(text) == [ ok |-> TRUE, text |-> text ]
OcrFail == [ ok |-> FALSE, text |-> "" ]

Unrecognized == "unrecognized"
CritShort == "crit dmg short+7.8%"
CritFixed == "crit dmg+7.8%"

\* fix_hoarfrost_ocr_text: the one known misreading is repaired, for a
\* hoarfrost artifact in a 1920x1080 window only
fix_hoarfrost_ocr_text(text, is_hoarfrost, is_1080p) ==
    IF ~is_hoarfrost \/ ~is_1080p THEN text
    ELSE IF text = CritShort THEN CritFixed
    ELSE text

\* Result::unwrap_or_default on a recognized text
unwrap_or_default(r) == IF r.ok THEN r.text ELSE ""

\* the batched fields: text or default, and the error pushed on failure
BatchField(r, field, default) ==
    IF r.ok THEN [ text |-> r.text, errors |-> << >> ]
    ELSE [ text |-> default,
           errors |-> << ScanError("OcrRecognitionFailed", field) >> ]

\* in: the recognizer's answer per region, is_hoarfrost, is_1080p, star
scan_item_image_detail(in, lock) ==
    LET title == BatchField(in.title, "title", Unrecognized)
        main_stat_name == BatchField(in.main_stat_name, "main_stat_name", Unrecognized)
        main_stat_value == BatchField(in.main_stat_value, "main_stat_value", "0")
        str_level == BatchField(in.level, "level", << "0" >>)
        str_equip == IF in.equip.ok THEN in.equip.text ELSE ""
        sub(r) == fix_hoarfrost_ocr_text(unwrap_or_default(r),
                                         in.is_hoarfrost, in.is_1080p)
        parsed == parse_level(str_level.text)
        level_errors == IF parsed.ok THEN << >>
                        ELSE << ScanError("LevelParsingFailed", "level") >>
        result_errors == title.errors \o main_stat_name.errors
                             \o main_stat_value.errors \o str_level.errors
                             \o level_errors
        result == NewScanResult(title.text, main_stat_name.text,
                                main_stat_value.text,
                                << sub(in.sub_stat_1), sub(in.sub_stat_2),
                                   sub(in.sub_stat_3), sub(in.sub_stat_4) >>,
                                str_equip,
                                IF parsed.ok THEN parsed.value ELSE 0,
                                in.star, lock)
    IN  [ ok |-> TRUE, result |-> AddErrors(result, result_errors, 1) ]

\* the level texts the recognizer is let to return
LevelTexts == { << "+", "1", "5" >>, << "1", "5" >>, << "a" >> }

ScanInputs ==
    [ title : { OcrOk("name"), OcrFail },
      main_stat_name : { OcrOk("atk"), OcrFail },
      main_stat_value : { OcrOk("311"), OcrFail },
      level : { OcrOk(t) : t \in LevelTexts } \cup { OcrFail },
      equip : { OcrOk("worn"), OcrFail },
      sub_stat_1 : { OcrOk(CritShort), OcrFail },
      sub_stat_2 : { OcrOk(CritShort), OcrFail },
      sub_stat_3 : { OcrOk("atk+5.8%"), OcrFail },
      sub_stat_4 : { OcrOk("atk+5.8%"), OcrFail },
      is_hoarfrost : BOOLEAN, is_1080p : BOOLEAN,
      star : { DefaultMinStar }, lock : BOOLEAN ]

InitScan == \E in \in ScanInputs : InitCall(in)

ScanItemCall ==
    /\ pc = "call"
    /\ fn_out' = scan_item_image_detail(fn_args, fn_args.lock)
    /\ pc' = "returned"
    /\ UNCHANGED << fn_args, pipeline >>

NextScan == ScanItemCall

SpecScan == InitScan /\ [][NextScan]_vars

(* -------------------------- ErrorRecoveryManager ----------------------- *)
\* RecoveryConfig::default
ConsecutiveFailureThreshold == 5
ErrorCountPerWindow == 10
ErrorRateThresholdNum == 3
ErrorRateThresholdDen == 10
BackoffInitialMs == 100
BackoffMaxMs == 10000
BackoffMultiplier == 2
IoDelayMs == 500
FallbackDelayMs == 200
RetryPauseMs == 100
RecentCap == 1000
RecentDrain == 100
DefaultMaxRetries == 3

Categories ==
    { "Network", "IO", "OCR", "Parsing", "ImageProcessing", "Configuration" }

\* RecoveryStrategy: the variant and its fields (delays in milliseconds, the
\* f64 multiplier kept exactly as mul_num / mul_den)
Strategy(kind, delay, max_delay, mul_num, mul_den) ==
    [ kind |-> kind, delay |-> delay, max_delay |-> max_delay,
      mul_num |-> mul_num, mul_den |-> mul_den ]

Plain(kind) == Strategy(kind, 0, 0, 1, 1)
DelayedRetry(delay) == Strategy("DelayedRetry", delay, 0, 1, 1)
ExponentialBackoff(initial_delay, max_delay, mul_num, mul_den) ==
    Strategy("ExponentialBackoff", initial_delay, max_delay, mul_num, mul_den)

\* strategy_map of the default configuration, for the categories above
StrategyMap ==
    [ Network |-> ExponentialBackoff(BackoffInitialMs, BackoffMaxMs,
                                     BackoffMultiplier, 1),
      IO |-> DelayedRetry(IoDelayMs),
      OCR |-> Plain("ImmediateRetry"),
      Parsing |-> Plain("UseDefault"),
      ImageProcessing |-> Plain("UseFallback"),
      Configuration |-> Plain("Fail") ]

DefaultRecoveryConfig ==
    [ max_retries |-> DefaultMaxRetries,
      strategy_map |-> StrategyMap,
      error_thresholds |->
          [ consecutive_failure_threshold |-> ConsecutiveFailureThreshold,
            rate_num |-> ErrorRateThresholdNum,
            rate_den |-> ErrorRateThresholdDen,
            error_count_per_window |-> ErrorCountPerWindow ] ]

get_recovery_strategy(config, category) ==
    IF category \in DOMAIN config.strategy_map
    THEN config.strategy_map[category]
    ELSE DelayedRetry(FallbackDelayMs)

RetryStrategies == { "ImmediateRetry", "DelayedRetry", "ExponentialBackoff" }

RecoveryStatisticsDefault ==
    [ total_errors |-> 0, successful_recoveries |-> 0, failed_recoveries |-> 0,
      category_counts |-> [ c \in Categories |-> 0 ], recent_errors |-> << >> ]

record_error(stats, category) ==
    LET pushed == Append(stats.recent_errors, category)
    IN  [ stats EXCEPT
            !.total_errors = @ + 1,
            !.category_counts[category] = @ + 1,
            !.recent_errors =
                IF Len(pushed) > RecentCap
                THEN SubSeq(pushed, RecentDrain + 1, Len(pushed))
                ELSE pushed ]

record_successful_recovery(stats) ==
    [ stats EXCEPT !.successful_recoveries = @ + 1 ]

record_failed_recovery(stats) == [ stats EXCEPT !.failed_recoveries = @ + 1 ]

\* error_rate() > overall_error_rate_threshold
ErrorRateOver(stats, thresholds) ==
    /\ stats.total_errors # 0
    /\ stats.failed_recoveries * thresholds.rate_den
           > thresholds.rate_num * stats.total_errors

\* variant: one error fewer is taken from the end of the list
RecentFailuresShort(stats, category, threshold) ==
    LET n == Len(stats.recent_errors)
        last == { i \in 1..n : i > n - (threshold - 1) }
    IN  Cardinality({ i \in last : stats.recent_errors[i] = category })

\* the same-category errors among the last `threshold` recorded ones
RecentFailures(stats, category, threshold) ==
    LET n == Len(stats.recent_errors)
        last == { i \in 1..n : i > n - threshold }
    IN  Cardinality({ i \in last : stats.recent_errors[i] = category })

\* variant: the breaker that never looks at the time window
WindowFullNever(in_window, thresholds) == FALSE

\* error_count_in_window(time_window) >= error_count_per_window
WindowFull(in_window, thresholds) ==
    in_window >= thresholds.error_count_per_window

\* how many of the n recent errors are younger than the time window: the one
\* just recorded only, or all of them
InWindowChoices(n) == { 1, n }

\* in_window: how many of the recent errors are younger than the time window
should_attempt_recovery(config, stats, category, in_window) ==
    LET thresholds == config.error_thresholds
        threshold == thresholds.consecutive_failure_threshold
    IN  /\ ~(RecentFailures(stats, category, threshold) >= threshold)
        /\ ~WindowFull(in_window, thresholds)
        /\ ~ErrorRateOver(stats, thresholds)

\* variant: the failure before the last attempt already ends the call
IsLastAttemptEarly(attempt, max_retries) == attempt + 1 >= max_retries - 1

\* `attempt == self.config.max_retries - 1`
IsLastAttempt(attempt, max_retries) == attempt = max_retries - 1

\* variant: the outcome of a short-circuiting strategy, Skip taken for Fail
ShortCircuitSkipAborts(kind) ==
    IF kind = "Fail" THEN "RecoveryAborted"
    ELSE IF kind = "Skip" THEN "RecoveryAborted"
    ELSE IF kind = "UseDefault" THEN "UseDefaultRequested"
    ELSE IF kind = "UseFallback" THEN "UseFallbackRequested"
    ELSE "pending"

\* the match on the strategy in attempt_recovery
ShortCircuit(kind) ==
    IF kind = "Fail" THEN "RecoveryAborted"
    ELSE IF kind = "Skip" THEN "OperationSkipped"
    ELSE IF kind = "UseDefault" THEN "UseDefaultRequested"
    ELSE IF kind = "UseFallback" THEN "UseFallbackRequested"
    ELSE "pending"

\* Duration::from_millis((ms as f64 * multiplier) as u64).min(max_delay)
NextDelay(delay, strategy) ==
    LET scaled == IF strategy.mul_num <= 0 THEN 0
                  ELSE (delay * strategy.mul_num) \div strategy.mul_den
    IN  Min(scaled, strategy.max_delay)

\* one attempt_recovery call: its error, its position in the retry loop, what
\* the operation returned at each invocation and every delay slept so far
NoRecovery ==
    [ category |-> "none", strategy |-> "none", passed |-> FALSE,
      in_window |-> 0, before |-> RecoveryStatisticsDefault, attempt |-> 0,
      trace |-> << >>, result |-> "none", current_delay |-> 0,
      delays |-> << >> ]

ManagerNew(config) ==
    [ config |-> config, statistics |-> RecoveryStatisticsDefault,
      rc |-> NoRecovery, calls |-> 0 ]

\* the configurations: the default one with every max_retries, breakers with
\* lower thresholds, backoff parameters, and other strategy maps
RetryConfigs ==
    { [ DefaultRecoveryConfig EXCEPT !.max_retries = r ] : r \in 0..MaxRetries }

BreakerConfigs ==
    { [ DefaultRecoveryConfig EXCEPT
          !.max_retries = 1,
          !.error_thresholds.consecutive_failure_threshold = t,
          !.error_thresholds.error_count_per_window = w ] :
        t \in 1..MaxThreshold, w \in { MaxThreshold, ErrorCountPerWindow } }

BackoffConfigs ==
    { [ DefaultRecoveryConfig EXCEPT
          !.max_retries = MaxRetries,
          !.strategy_map.Network = ExponentialBackoff(i, 2 * BackoffInitialMs, m, 2) ] :
        i \in { BackoffInitialMs, 4 * BackoffInitialMs }, m \in { 1, 2, 4 } }

MapConfigs ==
    { [ DefaultRecoveryConfig EXCEPT !.max_retries = 1, !.strategy_map = sm ] :
        sm \in { [ StrategyMap EXCEPT !.Parsing = Plain("Skip") ],
                 [ c \in Categories \ { "IO", "Parsing" } |-> StrategyMap[c] ] } }

RecoveryConfigs ==
    RetryConfigs \cup BreakerConfigs \cup BackoffConfigs \cup MapConfigs

InitRetry == \E config \in RecoveryConfigs : InitCall(config)

RecoveryManagerNew ==
    /\ pc = "call"
    /\ fn_out' = ManagerNew(fn_args)
    /\ pc' = "idle"
    /\ UNCHANGED << fn_args, pipeline >>

\* attempt_recovery up to the first await of the retry loop
AttemptRecovery ==
    /\ pc = "idle"
    /\ fn_out.calls < MaxCalls
    /\ \E category \in Categories :
           LET stats == record_error(fn_out.statistics, category) IN
           \E in_window \in InWindowChoices(Len(stats.recent_errors)) :
               LET passed == should_attempt_recovery(fn_out.config, stats,
                                                     category, in_window)
                   strategy == get_recovery_strategy(fn_out.config, category)
                   retry == passed /\ strategy.kind \in RetryStrategies
                   rc == [ NoRecovery EXCEPT
                             !.category = category,
                             !.strategy = strategy.kind,
                             !.passed = passed,
                             !.in_window = in_window,
                             !.before = fn_out.statistics,
                             !.result =
                                 IF ~passed THEN "RecoveryAborted"
                                 ELSE ShortCircuit(strategy.kind),
                             !.current_delay =
                                 IF strategy.kind = "ExponentialBackoff"
                                 THEN strategy.delay ELSE 0,
                             !.delays =
                                 IF retry /\ strategy.kind = "DelayedRetry"
                                 THEN << strategy.delay >> ELSE << >> ]
               IN  /\ fn_out' = [ fn_out EXCEPT !.statistics = stats,
                                                !.rc = rc,
                                                !.calls = @ + 1 ]
                   /\ pc' = IF ~retry THEN "idle"
                            ELSE IF strategy.kind = "ExponentialBackoff"
                                 THEN "backoff" ELSE "retry"
    /\ UNCHANGED << fn_args, pipeline >>

\* what one invocation of the operation does to the call and the statistics
AfterInvocation(m, ok, pauses) ==
    LET rc == m.rc
        last == IsLastAttempt(rc.attempt, m.config.max_retries)
    IN  IF ok
        THEN [ m EXCEPT
                 !.statistics = record_successful_recovery(@),
                 !.rc.trace = Append(@, TRUE),
                 !.rc.result = "Ok" ]
        ELSE IF last
        THEN [ m EXCEPT
                 !.statistics = record_failed_recovery(@),
                 !.rc.trace = Append(@, FALSE),
                 !.rc.result = "MaxRetriesExceeded" ]
        ELSE [ m EXCEPT
                 !.statistics = record_error(@, rc.category),
                 !.rc.trace = Append(@, FALSE),
                 !.rc.delays = @ \o pauses,
                 !.rc.attempt = @ + 1 ]

\* one iteration of the loop of retry_with_strategy
RetryStep ==
    /\ pc = "retry"
    /\ IF fn_out.rc.attempt >= fn_out.config.max_retries
       THEN /\ fn_out' = [ fn_out EXCEPT !.rc.result = "unreachable" ]
            /\ pc' = "panicked"
       ELSE \E ok \in BOOLEAN :
                /\ fn_out' = AfterInvocation(fn_out, ok,
                                 << RetryPauseMs * (fn_out.rc.attempt + 1) >>)
                /\ pc' = IF fn_out'.rc.result = "pending" THEN "retry"
                         ELSE "idle"
    /\ UNCHANGED << fn_args, pipeline >>

\* the sleep at the head of an iteration of the backoff loop
BackoffSleep(m) ==
    LET delay == m.rc.current_delay
        strategy == get_recovery_strategy(m.config, m.rc.category)
    IN  IF m.rc.attempt > 0
        THEN [ m EXCEPT !.rc.delays = Append(@, delay),
                        !.rc.current_delay = NextDelay(delay, strategy) ]
        ELSE m

\* one iteration of the loop of retry_with_exponential_backoff
BackoffStep ==
    /\ pc = "backoff"
    /\ IF fn_out.rc.attempt >= fn_out.config.max_retries
       THEN /\ fn_out' = [ fn_out EXCEPT !.rc.result = "unreachable" ]
            /\ pc' = "panicked"
       ELSE \E ok \in BOOLEAN :
                /\ fn_out' = AfterInvocation(BackoffSleep(fn_out), ok, << >>)
                /\ pc' = IF fn_out'.rc.result = "pending" THEN "backoff"
                         ELSE "idle"
    /\ UNCHANGED << fn_args, pipeline >>

NextRetry ==
    RecoveryManagerNew \/ AttemptRecovery \/ RetryStep \/ BackoffStep

SpecRetry == InitRetry /\ [][NextRetry]_vars

(* --------------------------- AdaptiveDelayManager ---------------------- *)
\* the Worker's base delay, in milliseconds
WorkerBaseDelay == 10
BaseDelays == 0..MaxBase

Max(a, b) == IF a >= b THEN a ELSE b

\* `(current_delay as f64 * 0.9).max(base_delay as f64 / 2.0) as u32`: the
\* cast truncates
Lowered(current_delay, base_delay) ==
    Max((current_delay * 9) \div 10, base_delay \div 2)

\* `(current_delay as f64 * 1.2).min(base_delay as f64 * 2.0) as u32`
Raised(current_delay, base_delay) ==
    Min((current_delay * 12) \div 10, base_delay * 2)

\* success_rate > 0.95 and success_rate < 0.8, on the counters
RateHigh(success_count, failure_count) ==
    success_count * 100 > 95 * (success_count + failure_count)
RateLow(success_count, failure_count) ==
    success_count * 10 < 8 * (success_count + failure_count)

\* due: 5 seconds have passed since last_adjustment; last: the adjustment
\* made most recently, with the counters it was computed from
DelayManagerNew(base_delay) ==
    [ base_delay |-> base_delay, current_delay |-> base_delay,
      success_count |-> 0, failure_count |-> 0, due |-> FALSE,
      last |-> [ made |-> FALSE, success_count |-> 0, failure_count |-> 0,
                 before |-> base_delay ] ]

adjust_delay(m) ==
    LET total_operations == m.success_count + m.failure_count
    IN  IF ~m.due THEN m
        ELSE IF total_operations = 0 THEN m
        ELSE [ m EXCEPT
                 !.current_delay =
                     IF RateHigh(m.success_count, m.failure_count)
                     THEN Lowered(@, m.base_delay)
                     ELSE IF RateLow(m.success_count, m.failure_count)
                     THEN Raised(@, m.base_delay)
                     ELSE @,
                 !.success_count = 0,
                 !.failure_count = 0,
                 !.due = FALSE,
                 !.last = [ made |-> TRUE, success_count |-> m.success_count,
                            failure_count |-> m.failure_count,
                            before |-> m.current_delay ] ]

record_success(m) == adjust_delay([ m EXCEPT !.success_count = @ + 1 ])
record_failure(m) == adjust_delay([ m EXCEPT !.failure_count = @ + 1 ])

InitDelay == \E base_delay \in BaseDelays : InitCall(base_delay)

DelayNew ==
    /\ pc = "call"
    /\ fn_out' = DelayManagerNew(fn_args)
    /\ pc' = "built"
    /\ UNCHANGED << fn_args, pipeline >>

\* five seconds go by without a call
DelayWindowEnds ==
    /\ pc = "built"
    /\ ~fn_out.due
    /\ fn_out' = [ fn_out EXCEPT !.due = TRUE ]
    /\ UNCHANGED << fn_args, pc, pipeline >>

DelayRecordSuccess ==
    /\ pc = "built"
    /\ fn_out.success_count + fn_out.failure_count < MaxOps
    /\ fn_out' = record_success(fn_out)
    /\ UNCHANGED << fn_args, pc, pipeline >>

DelayRecordFailure ==
    /\ pc = "built"
    /\ fn_out.success_count + fn_out.failure_count < MaxOps
    /\ fn_out' = record_failure(fn_out)
    /\ UNCHANGED << fn_args, pc, pipeline >>

NextDelayManager ==
    DelayNew \/ DelayWindowEnds \/ DelayRecordSuccess \/ DelayRecordFailure

SpecDelay == InitDelay /\ [][NextDelayManager]_vars

(* ------------------------------ properties ---------------------------- *)
ControllerErrors == { "click", "wait", "scroll", "scroll_failed" }

\* C1 (as amended): a Controller run that ended with no cancel signal observed
\* and no click, flag-colour capture, wait-switch or scroll error returned
\* Finished after exactly item_count yields; scanned_count never exceeds
\* item_count
C1_FinishedAfterItemCount ==
    /\ ( /\ pc = "done"
         /\ obs.cancel = "none"
         /\ obs.errs \cap (ControllerErrors \cup { "capture" }) = {} )
       => (ret = "Finished" /\ obs.yields = cfg.item_count)
    /\ state.scanned_count <= cfg.item_count
    /\ ctl.scanned_count <= cfg.item_count
    /\ obs.yields <= cfg.item_count

\* C1 as written: only click, wait-switch and scroll errors are excluded
C1_AsWritten ==
    ( /\ pc = "done"
      /\ obs.cancel = "none"
      /\ obs.errs \cap ControllerErrors = {} )
    => (ret = "Finished" /\ obs.yields = cfg.item_count)

C1_Witness ==
    /\ pc = "done"
    /\ ret = "Finished"
    /\ obs.cancel = "none"
    /\ obs.errs = {}
    /\ obs.yields = cfg.item_count
    /\ cfg.item_count >= 3
    /\ ctl.scrolled_rows > 0

\* the least n with n * b >= a, for a >= 0 and b > 0
CeilDiv(a, b) == (a + b - 1) \div b

\* C2: when a page is exhausted and items remain, the parameters computed are
\* scroll_row = min(ceil((item_count - scanned_count) / col), row) and
\* start_row = row - scroll_row
C2_ParamsByCol ==
    pc = "scroll_loop" =>
        LET scroll_row ==
                Min(CeilDiv(cfg.item_count - state.scanned_count, cfg.col), cfg.row)
        IN  obs.params = << scroll_row, cfg.row - scroll_row >>

\* C3: ScanState::new sets total_row = ceil(item_count / col) and
\* last_row_col = item_count - (total_row - 1) * col, which is col when col
\* divides item_count; 75 items in 8 columns give 10 rows, the last of 3
C3_ScanStateNew ==
    pc = "new_done" =>
        /\ state.total_row * cfg.col >= cfg.item_count
        /\ (state.total_row - 1) * cfg.col < cfg.item_count
        /\ state.last_row_col = cfg.item_count - (state.total_row - 1) * cfg.col
        /\ (cfg.item_count % cfg.col = 0 => state.last_row_col = cfg.col)
        /\ (cfg.item_count = 75 /\ cfg.col = 8
               => state.total_row = 10 /\ state.last_row_col = 3)

C3_Witness ==
    /\ pc = "new_done"
    /\ cfg.item_count = 75
    /\ cfg.col = 8
    /\ state.total_row = 10
    /\ state.last_row_col = 3

\* C4: once the cancel signal was observed, at the per-cell check or in the
\* row-scroll polling, the run has ended with the result Interrupted
C4_CancelInterrupts ==
    obs.cancel # "none" => (pc = "done" /\ ret = "Interrupted")

\* C5: with a maximum-row cap M > 0 configured, no cell of a row beyond the
\* first M rows is visited
C5_MaxRowCap ==
    (cfg.max_row > 0 /\ pc = "yielded") => state.scanned_row < cfg.max_row

\* C6: scroll_one_row issues at most 25 scroll inputs; it returns Success only
\* after a far sample and a later near one; otherwise, after 25 attempts, it
\* returns TimeLimitExceeded and the run has ended with an error
C6_ScrollOneRowBounded ==
    /\ obs.scroll.count <= 25
    /\ obs.scroll.result = "Success" => obs.scroll.pattern
    /\ obs.scroll.result = "TimeLimitExceeded" =>
           /\ obs.scroll.count = 25
           /\ ~obs.scroll.pattern
           /\ pc = "done"
           /\ ret = "Err"

C6_Witness ==
    /\ obs.scroll.result = "TimeLimitExceeded"
    /\ obs.scroll.count = 25
    /\ obs.yields > 0
    /\ pc = "done"
    /\ ret = "Err"

\* C7: after a page scroll ended with ScrollResult::Failed the Controller
\* visits no cell
C7_FailedScrollAborts ==
    obs.failed_scroll => pc # "yielded"

\* C8: outside cloud mode wait_until_switched returns Ok only after a sample
\* differed from the stored value and a later one equalled the new value; a
\* wait that fails ends the run with Err and no yield for the cell; in cloud
\* mode it returns Ok without taking a sample
C8_WaitUntilSwitched ==
    /\ (~cfg.is_cloud /\ obs.wait.result = "Ok") => obs.wait.pattern
    /\ obs.wait.result \in { "Timeout", "CaptureFailed" } =>
           /\ pc = "done"
           /\ ret = "Err"
           /\ obs.yields = state.scanned_count
    /\ (cfg.is_cloud /\ obs.wait.result # "none") =>
           (obs.wait.result = "Ok" /\ obs.wait.polls = 0)

C8_Witness ==
    /\ ~cfg.is_cloud
    /\ obs.wait.result = "Ok"
    /\ obs.wait.pattern
    /\ obs.wait.polls = 2
    /\ pc = "yielded"

\* C9: a SendItem carries Some(list image) exactly when its cell is the first
\* one visited after initialization or after a page scroll
C9_ListImageOnFreshPage ==
    \A i \in 1..Len(built) : built[i].list_some = built[i].fresh

\* item i of seq equals an earlier one
IsDup(seq, i) == \E j \in 1..(i - 1) : seq[j] = seq[i]

\* the number of duplicates seq[1..i] ends with
RECURSIVE TrailingDups(_, _)
TrailingDups(seq, i) ==
    IF i = 0 \/ ~IsDup(seq, i) THEN 0 ELSE 1 + TrailingDups(seq, i - 1)

\* C10: the consecutive-duplicate counter is the number of duplicates the
\* items scanned so far end with; with ignore_dup = false the Worker stops as
\* soon as it reaches col; with ignore_dup = true it never stops on duplicates
C10_DupCounter ==
    /\ wk.consecutive_dup_count = TrailingDups(wk.scanned, Len(wk.scanned))
    /\ wk.exit = "dup_streak" =>
           (~cfg.ignore_dup /\ wk.consecutive_dup_count = cfg.col)
    /\ (wk.status = "running" /\ ~cfg.ignore_dup) =>
           wk.consecutive_dup_count < cfg.col
    /\ cfg.ignore_dup => wk.exit # "dup_streak"

C10_Witness ==
    /\ wk.exit = "dup_streak"
    /\ ~cfg.ignore_dup
    /\ cfg.col >= 2
    /\ wk.consecutive_dup_count = cfg.col
    /\ Len(wk.results) >= 2

\* the items of seq that equal no earlier one, in order
RECURSIVE FirstArrivals(_, _)
FirstArrivals(seq, i) ==
    IF i = 0 THEN << >>
    ELSE IF IsDup(seq, i) THEN FirstArrivals(seq, i - 1)
    ELSE Append(FirstArrivals(seq, i - 1), seq[i])

\* C11: at every point of the Worker loop and at exit the result list holds
\* no two equal results, is as long as the seen-set is large, and lists the
\* distinct accepted items in the order of their first arrival
C11_UniqueOrderedResults ==
    /\ \A i, j \in 1..Len(wk.results) : wk.results[i] = wk.results[j] => i = j
    /\ Len(wk.results) = Cardinality(wk.hash)
    /\ wk.results = FirstArrivals(wk.scanned, Len(wk.scanned))

C11_Witness ==
    /\ wk.status = "finished"
    /\ Len(wk.results) >= 2
    /\ Len(wk.scanned) > Len(wk.results)
    /\ wk.results[1] # wk.scanned[Len(wk.scanned)]

\* C12: an item whose level is below min_level makes the Worker stop
\* consuming, with items it never takes left behind; the item is not added,
\* and every result has level >= min_level
C12_MinLevelStops ==
    /\ \A i \in 1..Len(wk.results) : wk.results[i].level >= cfg.min_level
    /\ \A i \in 1..Len(wk.scanned) : wk.scanned[i].level >= cfg.min_level
    /\ wk.exit = "min_level" =>
           /\ wk.status = "finished"
           /\ ~wk.rx_alive
           /\ Len(wk.scanned) < wk.artifact_index

C12_Witness ==
    /\ wk.exit = "min_level"
    /\ Len(wk.results) >= 1
    /\ drv.artifact_index > wk.artifact_index

\* C13: the driver stops resuming the Controller at the first yielded item
\* whose star is below min_star; that item is not sent, so every SendItem on
\* the channel has star >= min_star
C13_MinStarStops ==
    /\ \A i \in 1..Len(chan) : chan[i].some => chan[i].item.star >= cfg.min_star
    /\ drv.status = "star_stop" =>
           /\ pc = "dropped"
           /\ ret = "none"
           /\ Len(chan) = drv.artifact_index - 1
           /\ obs.yields = drv.artifact_index

C13_Witness ==
    /\ drv.status = "star_stop"
    /\ Len(chan) >= 2
    /\ obs.yields < cfg.item_count

\* C15: a failure to capture the panel image or the star colour at a visited
\* cell does not abort the run: the driver keeps running
C15_CaptureFailureTolerated ==
    "driver_capture" \in obs.errs => drv.status = "running"

\* s is one or more digits
IsDigits(s) == Len(s) >= 1 /\ \A i \in 1..Len(s) : s[i] \in Digits

\* the number a digit text denotes
RECURSIVE Decimal(_)
Decimal(s) ==
    IF Len(s) = 0 THEN 0
    ELSE 10 * Decimal(SubSeq(s, 1, Len(s) - 1)) + DigitValue(s[Len(s)])

\* s is an integer written without a '+': digits, or '-' and digits
IsBareInteger(s) ==
    IsDigits(s) \/ (Len(s) >= 2 /\ s[1] = "-" /\ IsDigits(Tail(s)))
BareInteger(s) == IF s[1] = "-" THEN 0 - Decimal(Tail(s)) ELSE Decimal(s)

\* the text behind position k of s
After(s, k) == SubSeq(s, k + 1, Len(s))

\* C16 (as amended): parse_level returns n for a bare integer n, returns n
\* for a text whose first '+' is followed by exactly the digits of n, and
\* returns a parsing error for every other text
C16_ParseLevel ==
    pc = "returned" =>
        LET s == fn_args
            pos == Find(s, "+")
        IN  /\ IsBareInteger(s) => fn_out = ParseOk(BareInteger(s))
            /\ (pos > 0 /\ IsDigits(After(s, pos)))
                   => fn_out = ParseOk(Decimal(After(s, pos)))
            /\ (~IsBareInteger(s) /\ ~(pos > 0 /\ IsDigits(After(s, pos))))
                   => ~fn_out.ok
            /\ (s = << "1", "5" >> \/ s = << "+", "1", "5" >>)
                   => fn_out = ParseOk(15)
            /\ s = << "a", "a", "a" >> => ~fn_out.ok

\* C16 as written: any '+' of the text followed by an integer n gives n
C16_AsWritten ==
    pc = "returned" =>
        \A k \in 1..Len(fn_args) :
            (fn_args[k] = "+" /\ IsDigits(After(fn_args, k)))
                => fn_out = ParseOk(Decimal(After(fn_args, k)))

C16_Witness ==
    /\ pc = "returned"
    /\ fn_args = << "a", "+", "5" >>
    /\ fn_out = ParseOk(5)

RecognizedFields ==
    { "title", "main_stat_name", "main_stat_value", "level", "equip",
      "sub_stat_1", "sub_stat_2", "sub_stat_3", "sub_stat_4" }

\* the recognizer failed on field f of the call
FieldFailed(f) ==
    \/ f = "title" /\ ~fn_args.title.ok
    \/ f = "main_stat_name" /\ ~fn_args.main_stat_name.ok
    \/ f = "main_stat_value" /\ ~fn_args.main_stat_value.ok
    \/ f = "level" /\ ~fn_args.level.ok
    \/ f = "equip" /\ ~fn_args.equip.ok
    \/ f = "sub_stat_1" /\ ~fn_args.sub_stat_1.ok
    \/ f = "sub_stat_2" /\ ~fn_args.sub_stat_2.ok
    \/ f = "sub_stat_3" /\ ~fn_args.sub_stat_3.ok
    \/ f = "sub_stat_4" /\ ~fn_args.sub_stat_4.ok

\* the number of entries of the error list that name field f
ErrorsFor(r, f) ==
    Cardinality({ i \in 1..Len(r.scan_errors) : r.scan_errors[i][2] = f })

\* C14: a recognition failure of any of the nine fields adds one typed error
\* to the item's error list, and a ScanResult is still produced
C14_FieldFailureRecorded ==
    pc = "returned" =>
        /\ fn_out.ok
        /\ \A f \in RecognizedFields :
               FieldFailed(f) => ErrorsFor(fn_out.result, f) = 1

\* C17: results with the same content fields are equal and hash-equal whatever
\* their error lists and confidence, so adding an error never changes whether
\* a set holds the result; results differing in a content field are unequal
C17_EqualityByContent ==
    pc = "built" =>
        LET r1 == fn_out[1]
            r2 == fn_out[2]
        IN  /\ fn_args[1] = fn_args[2] =>
                /\ ResultEq(r1, r2)
                /\ ResultHash(r1) = ResultHash(r2)
                /\ SetContains({ r1 }, r2)
            /\ fn_args[1] # fn_args[2] =>
                /\ ~ResultEq(r1, r2)
                /\ ~SetContains({ r1 }, r2)
            /\ \A kind \in ErrorKinds :
                   LET more == add_error(r2, ScanError(kind, "detail"))
                   IN  SetContains({ r1 }, more) <=> SetContains({ r1 }, r2)

C17_Witness ==
    /\ pc = "built"
    /\ fn_args[1] = fn_args[2]
    /\ Len(fn_out[1].scan_errors) = 0
    /\ Len(fn_out[2].scan_errors) = 2
    /\ fn_out[1].confidence_score # fn_out[2].confidence_score
    /\ ResultEq(fn_out[1], fn_out[2])

RECURSIVE Pow(_, _)
Pow(b, n) == IF n = 0 THEN 1 ELSE b * Pow(b, n - 1)

\* confidence values compared exactly
ConfidenceInUnit(c) == 0 <= c.num /\ c.num <= Pow(ConfidenceBase, c.exp)
ConfidenceLeq(c, d) ==
    c.num * Pow(ConfidenceBase, d.exp) <= d.num * Pow(ConfidenceBase, c.exp)

\* C18: a new result has confidence 1 and no errors; each add_error leaves the
\* confidence in [0, 1] and no higher than before, lengthens the error list by
\* exactly one and leaves the content fields unchanged
C18_AddErrorMonotone ==
    [][ /\ pc = "call" =>
            \A w \in 1..2 :
                /\ fn_out'[w].confidence_score = Confidence(1, 0)
                /\ fn_out'[w].scan_errors = << >>
        /\ pc = "built" =>
            \A w \in 1..2 :
                \/ fn_out'[w] = fn_out[w]
                \/ /\ ConfidenceInUnit(fn_out'[w].confidence_score)
                   /\ ConfidenceLeq(fn_out'[w].confidence_score,
                                    fn_out[w].confidence_score)
                   /\ Len(fn_out'[w].scan_errors) = Len(fn_out[w].scan_errors) + 1
                   /\ ResultHash(fn_out'[w]) = ResultHash(fn_out[w])
                   /\ ResultHash(fn_out'[w]) = ResultHash(NewOf(fn_args[w])) ]_vars

C18_Witness ==
    /\ pc = "built"
    /\ Len(fn_out[1].scan_errors) = 2
    /\ fn_out[1].confidence_score = Confidence(14 * 19, 2)

\* the calls recorded in fn_args
Successes == Cardinality({ i \in 1..Len(fn_args) : fn_args[i] = "success" })
Attempts == Len(fn_args)

RECURSIVE SumCounters(_, _)
SumCounters(stats, names) ==
    IF names = {} THEN 0
    ELSE LET c == CHOOSE x \in names : TRUE
         IN  stats[c] + SumCounters(stats, names \ { c })

\* C19: the success rate is 0 when no attempt was recorded and is otherwise
\* the percentage 100 * k / n of k successes among n attempts; total_errors is
\* the sum of the per-kind counters
C19_SuccessRate ==
    pc = "built" =>
        LET rate == get_success_rate(fn_out)
        IN  /\ Attempts = 0 => rate.num = 0
            /\ rate.den > 0
            /\ Attempts > 0 =>
                   rate.num * Attempts = 100 * Successes * rate.den
            /\ fn_out["total_errors"] = SumCounters(fn_out, KindCounters)
            /\ fn_out["successful_scans"] = Successes

\* C19 as stated: the rate of k successes among n attempts equals k / n
C19_AsWritten ==
    pc = "built" /\ Attempts > 0 =>
        LET rate == get_success_rate(fn_out)
        IN  rate.num * Attempts = Successes * rate.den

C19_Witness ==
    /\ pc = "built"
    /\ fn_args = << "success", "success", "OcrRecognitionFailed" >>
    /\ fn_out["ocr_errors"] = 1
    /\ get_success_rate(fn_out) = Ratio(200, 3)

\* the current attempt_recovery call is one the claim speaks of
RetryingCall ==
    /\ pc \in { "idle", "retry", "backoff", "panicked" }
    /\ fn_out.rc.passed
    /\ fn_out.rc.strategy \in RetryStrategies
    /\ fn_out.config.max_retries >= 1

AllFailed(trace) == \A i \in 1..Len(trace) : ~trace[i]

\* C20: with max_retries >= 1, a retrying call that passed the breaker invokes
\* the operation at most max_retries times, returns Ok at the first success
\* with no further invocation, and returns MaxRetriesExceeded after exactly
\* max_retries failed invocations
C20_RetryBound ==
    RetryingCall =>
        LET rc == fn_out.rc
            n == Len(rc.trace)
        IN  /\ n <= fn_out.config.max_retries
            /\ \A i \in 1..(n - 1) : ~rc.trace[i]
            /\ rc.result \in { "pending", "Ok", "MaxRetriesExceeded" }
            /\ rc.result = "Ok" <=> (n >= 1 /\ rc.trace[n])
            /\ rc.result = "MaxRetriesExceeded"
                   <=> (n = fn_out.config.max_retries /\ AllFailed(rc.trace))
            /\ rc.result = "pending" <=> pc \in { "retry", "backoff" }

C20_Witness ==
    /\ RetryingCall
    /\ fn_out.config = DefaultRecoveryConfig
    /\ fn_out.rc.strategy = "ExponentialBackoff"
    /\ fn_out.rc.trace = << FALSE, FALSE, FALSE >>
    /\ fn_out.rc.result = "MaxRetriesExceeded"
    /\ fn_out.calls = 2

\* an attempt_recovery call has been made; fn_out.rc describes the latest one
RecoveryCalled == pc \in { "idle", "retry", "backoff", "panicked" } /\ fn_out.calls >= 1

\* the last n recorded errors exist and are all of category c
LastAllOf(recent, n, c) ==
    /\ Len(recent) >= n
    /\ \A i \in 1..Len(recent) : i > Len(recent) - n => recent[i] = c

\* the call was refused: RecoveryAborted, the operation never invoked
Refused(rc) == rc.result = "RecoveryAborted" /\ rc.trace = << >>

\* C21: after consecutive_failure_threshold failures of one category have been
\* recorded, the next attempt_recovery call for an error of that category is
\* refused with RecoveryAborted and the operation is not invoked
C21_BreakerSameCategory ==
    RecoveryCalled =>
        LET rc == fn_out.rc
            threshold == fn_out.config.error_thresholds.consecutive_failure_threshold
        IN  LastAllOf(rc.before.recent_errors, threshold, rc.category)
                => ~rc.passed /\ Refused(rc)

\* C21 as stated: the refusal happens whatever the category of the next call
C21_AsWritten ==
    RecoveryCalled =>
        LET rc == fn_out.rc
            threshold == fn_out.config.error_thresholds.consecutive_failure_threshold
        IN  \A c \in Categories :
                LastAllOf(rc.before.recent_errors, threshold, c) => Refused(rc)

C21_Witness ==
    /\ RecoveryCalled
    /\ fn_out.config.error_thresholds.consecutive_failure_threshold = 2
    /\ fn_out.rc.before.recent_errors = << "Network", "Network" >>
    /\ fn_out.rc.before.failed_recoveries = 0
    /\ fn_out.rc.category = "Network"
    /\ fn_out.rc.in_window = 1
    /\ Refused(fn_out.rc)

\* the statistics the breaker looks at: the incoming error is recorded
ErrorsSeen(rc) == Append(rc.before.recent_errors, rc.category)

SameCategoryRun(rc, threshold) ==
    Cardinality({ i \in 1..Len(ErrorsSeen(rc)) :
                    /\ i > Len(ErrorsSeen(rc)) - threshold
                    /\ ErrorsSeen(rc)[i] = rc.category }) >= threshold

RateExceeded(rc, thresholds) ==
    rc.before.failed_recoveries * thresholds.rate_den
        > thresholds.rate_num * (rc.before.total_errors + 1)

MappedKind(config, category) ==
    IF category \in DOMAIN config.strategy_map
    THEN config.strategy_map[category].kind
    ELSE "DelayedRetry"

\* C22: with the incoming error recorded, a full time window or an error rate
\* over the threshold makes attempt_recovery refuse the call without invoking
\* the operation; when none of the three breaker conditions holds the mapped
\* strategy is applied
C22_BreakerConditions ==
    RecoveryCalled =>
        LET rc == fn_out.rc
            thresholds == fn_out.config.error_thresholds
            window == rc.in_window >= thresholds.error_count_per_window
            rate == RateExceeded(rc, thresholds)
            run == SameCategoryRun(rc, thresholds.consecutive_failure_threshold)
        IN  /\ window \/ rate => ~rc.passed /\ Refused(rc)
            /\ ~window /\ ~rate /\ ~run =>
                   /\ rc.passed
                   /\ rc.strategy = MappedKind(fn_out.config, rc.category)
                   /\ rc.result = "RecoveryAborted" => rc.strategy = "Fail"
                   /\ rc.strategy \in RetryStrategies =>
                          rc.result \in { "pending", "Ok", "MaxRetriesExceeded",
                                          "unreachable" }

C22_Witness ==
    /\ RecoveryCalled
    /\ fn_out.rc.before.recent_errors = << "OCR" >>
    /\ fn_out.rc.before.failed_recoveries = 0
    /\ fn_out.rc.category = "IO"
    /\ fn_out.rc.in_window = 2
    /\ fn_out.config.error_thresholds.error_count_per_window = 2
    /\ Refused(fn_out.rc)

\* the typed outcome the claim gives for each short-circuiting strategy
TypedOutcome ==
    [ Fail |-> "RecoveryAborted", Skip |-> "OperationSkipped",
      UseDefault |-> "UseDefaultRequested",
      UseFallback |-> "UseFallbackRequested" ]

\* the call returned `outcome`, the operation was not invoked and only the
\* incoming error was recorded
ShortCircuited(m, outcome) ==
    /\ m.rc.result = outcome
    /\ m.rc.trace = << >>
    /\ m.statistics.successful_recoveries = m.rc.before.successful_recoveries
    /\ m.statistics.failed_recoveries = m.rc.before.failed_recoveries
    /\ m.statistics.total_errors = m.rc.before.total_errors + 1
    /\ m.statistics.recent_errors = Append(m.rc.before.recent_errors, m.rc.category)

\* C23: when the call passes the circuit breaker and the strategy mapped to
\* the error's category is Fail, Skip, UseDefault or UseFallback, the call
\* returns RecoveryAborted, OperationSkipped, UseDefaultRequested or
\* UseFallbackRequested, never invokes the operation and records only the
\* incoming error
C23_ShortCircuit ==
    RecoveryCalled =>
        LET kind == MappedKind(fn_out.config, fn_out.rc.category)
        IN  fn_out.rc.passed /\ kind \in DOMAIN TypedOutcome
                => ShortCircuited(fn_out, TypedOutcome[kind])

\* C23 as stated: the typed outcome follows from the mapped strategy alone
C23_AsWritten ==
    RecoveryCalled =>
        LET kind == MappedKind(fn_out.config, fn_out.rc.category)
        IN  kind \in DOMAIN TypedOutcome
                => ShortCircuited(fn_out, TypedOutcome[kind])

C23_Witness ==
    /\ RecoveryCalled
    /\ fn_out.rc.category = "Parsing"
    /\ fn_out.rc.passed
    /\ fn_out.rc.before.recent_errors = << "Configuration" >>
    /\ ShortCircuited(fn_out, "OperationSkipped")

\* C24: under ExponentialBackoff the delays slept between the attempts of one
\* call are non-decreasing and none exceeds max_delay
C24_BackoffDelays ==
    RecoveryCalled /\ fn_out.rc.strategy = "ExponentialBackoff" =>
        LET delays == fn_out.rc.delays
            max_delay == fn_out.config.strategy_map[fn_out.rc.category].max_delay
        IN  /\ \A i \in 1..Len(delays) : delays[i] <= max_delay
            /\ \A i \in 1..(Len(delays) - 1) : delays[i] <= delays[i + 1]

\* C25: whatever the configuration, an attempt_recovery call ends in Ok or in
\* one of the five typed results and never panics
C25_ClosedOutcomes ==
    RecoveryCalled =>
        /\ pc # "panicked"
        /\ fn_out.rc.result \in
               { "pending", "Ok", "MaxRetriesExceeded", "RecoveryAborted",
                 "OperationSkipped", "UseDefaultRequested",
                 "UseFallbackRequested" }

\* scan() has returned what the Worker gathered
ScanReturned ==
    /\ drv.status = "returned"
    /\ wk.status = "finished"
    /\ fn_out.ok
    /\ fn_out.results = wk.results

\* C26: in every execution of scan() the Worker thread terminates and scan()
\* returns the results the Worker had gathered
C26_ScanReturnsPartial == <>ScanReturned

\* the Worker thread terminates in every execution
WorkerTerminates == <>(wk.status = "finished")

\* scan() returns the Worker's results unless a thread of the scan panicked
ReturnsUnlessPanic == <>(ScanReturned \/ drv.status = "panicked")

\* the item the Worker consumed last had a level that could not be read
LastLevelFailed ==
    /\ wk.warned # << >>
    /\ wk.warned[Len(wk.warned)] # << >>

\* C28: a level that cannot be recognized or parsed never stops the scan: the
\* Worker does not leave its loop on such an item
C28_FailureGoesOn ==
    wk.status = "finished" /\ LastLevelFailed => wk.exit \notin { "min_level" }

\* the last adjustment moved the delay as the rate of its window asks: down
\* above 95% unless already at base/2, up below 80% unless already at 2 * base,
\* not at all in between
AdjustedAsAsked(m) ==
    LET before == m.last.before
        after == m.current_delay
        high == m.last.success_count * 100
                    > 95 * (m.last.success_count + m.last.failure_count)
        low == m.last.success_count * 10
                    < 8 * (m.last.success_count + m.last.failure_count)
    IN  /\ high => after <= before /\ (after < before \/ 2 * before = m.base_delay)
        /\ low => after >= before /\ (after > before \/ before = 2 * m.base_delay)
        /\ ~high /\ ~low => after = before

\* C27: the delay stays within [base/2, 2*base]; an adjustment resets both
\* counters and moves the delay toward base/2 above 95%, toward 2*base below
\* 80% and leaves it alone in between, each time by a real step until the end
\* of the range is reached
C27_AdaptiveDelay ==
    pc = "built" =>
        /\ 2 * fn_out.current_delay >= fn_out.base_delay
        /\ fn_out.current_delay <= 2 * fn_out.base_delay
        /\ fn_out.last.made /\ fn_out.success_count + fn_out.failure_count = 0
               => AdjustedAsAsked(fn_out)

\* the same, for the base delay the Worker is built with
DelayOfWorker == fn_args = WorkerBaseDelay => C27_AdaptiveDelay

\* a SendItem built for the first cell the Controller visits after a page
\* scroll, with the list strip captured for it
AfterScroll(i) == i > 1 /\ built[i].fresh /\ built[i].list_some

\* C29: on a page reached by a scroll, the row the Controller starts visiting
\* from is the start row get_start_row gives the captured list strip
C29_StartRowsAgree ==
    \A i \in 1..Len(built) :
        AfterScroll(i) => built[i].image_start_row = built[i].visit_start_row

\* the Worker broke out of its loop on the level filter or a duplicate streak
StoppedEarly == wk.exit \in { "min_level", "dup_streak" }

\* cells the Controller visited, SendItems the driver built, since that exit
CellsSinceExit == obs.yields - wk.cells_at_exit
SendsSinceExit == Len(built) - wk.sends_at_exit

\* C30: once the Worker has stopped early and dropped its receiver, the
\* Controller visits at most one further cell and the driver builds at most
\* one further SendItem, whose send fails and ends send()
C30_ProducerStops ==
    StoppedEarly =>
        /\ ~wk.rx_alive
        /\ CellsSinceExit <= 1
        /\ SendsSinceExit <= 1
        /\ SendsSinceExit = 1 => drv.status \in { "send_failed", "closed", "returned" }

\* the Worker stopped on a low level with the Controller on its way to the
\* next cell: that cell was visited, its send failed, and cells remain
C30_Witness ==
    /\ StoppedEarly
    /\ CellsSinceExit = 1
    /\ SendsSinceExit = 1
    /\ drv.status = "send_failed"
    /\ obs.yields < cfg.item_count

====
